---- MODULE Spec2Model ----
(***************************************************************************)
(* cimon: the terminal controller (tui.Model) and its asynchronous         *)
(* commands.                                                               *)
(*                                                                         *)
(* The session is the Bubble Tea model `Model`: one Update step consumes   *)
(* one message (a key press or the completion message of a command) and    *)
(* returns the new model and at most one new command.  A command is a      *)
(* closure over a COPY of the model taken when it is issued, except for    *)
(* `m.config`, which is a pointer shared by every copy.  A command runs in *)
(* its own goroutine: it is first issued (phase "cmd"), then executes      *)
(* against the remote API (reading m.config at that moment) and leaves a   *)
(* message (phase "msg"), which a later Update step consumes.  Timers      *)
(* (tea.Tick) are pending TickMsg messages.                                *)
(*                                                                         *)
(* Not modelled here: rendering, scroll offsets, the spinner, window size, *)
(* loadingMessage, lastFetch.                                              *)
(***************************************************************************)
EXTENDS Integers, Sequences, FiniteSets, Bags, TLC

\* ------------------------------------------------------------------ bounds
\* Commands and messages pending at one time (a key that would issue one
\* more is not pressed while this many are pending).
MaxInFlight == 2

\* Characters typed into the search buffer (a key that would add one more
\* is not pressed).
MaxTerm == 2

\* ------------------------------------------------------------ the remote
\* gh.StatusQueued, gh.StatusInProgress, gh.StatusCompleted
StatusQueued == "queued"
StatusInProgress == "in_progress"
StatusCompleted == "completed"

\* The repositories of the world.  In single-repository mode the session
\* monitors "A"; in multi-repository mode config.Repositories is <<"A","B">>.
Repositories == <<"A", "B">>

\* Runs of each repository, most recent first (the order the API returns).
\* Repository "C" holds one finished run per remaining conclusion,
\* repository "D" more runs than a page of the aggregate fetch.
RepoRunIds(repo) ==
    IF repo = "A" THEN <<1, 2>>
    ELSE IF repo = "B" THEN <<3>>
    ELSE IF repo = "C" THEN <<4, 5, 6, 7, 8>>
    ELSE IF repo = "D" THEN <<9, 10, 11, 12, 13, 14>>
    ELSE IF repo = "G" THEN <<15>>
    ELSE <<>>

RunIds == {1, 2, 3, 4, 5, 6, 7, 8, 9, 10, 11, 12, 13, 14, 15}

RepoOfRun(r) ==
    IF r = 3 THEN "B" ELSE IF r = 15 THEN "G" ELSE IF r >= 9 THEN "D"
    ELSE IF r >= 4 THEN "C" ELSE "A"

\* WorkflowRun.UpdatedAt, as a rank: run 1 is the latest of "A" and "B",
\* then 3, then 2; the runs of "D" fall before, between and after them.
UpdatedAt(r) ==
    IF r = 1 THEN 30 ELSE IF r = 3 THEN 20
    ELSE IF r >= 9 THEN (CASE r = 9 -> 35 [] r = 10 -> 25 [] r = 11 -> 15
                           [] r = 12 -> 8 [] r = 13 -> 6 [] OTHER -> 4)
    ELSE 10

\* Page 1 of a repository's runs with per_page = perPage, as the API gives it.
FirstPage(ids, perPage) ==
    SubSeq(ids, 1, IF Len(ids) < perPage THEN Len(ids) ELSE perPage)

\* Jobs of a run, in API order: jobs 11 and 12 of run 1, five jobs of run
\* 15, one job (21, 31, ...) of the others.
JobIdsOf(r) ==
    IF r = 1 THEN <<11, 12>>
    ELSE IF r = 15 THEN <<151, 152, 153, 154, 155>>
    ELSE <<10 * r + 1>>

RunOfJob(j) == j \div 10

\* Run 1 is the run in progress: its job 11 advances remotely (job 12 is
\* done); the other runs completed long ago.
LiveJobs == {11}

NoRun == [id |-> 0, status |-> "", conclusion |-> ""]
NoJob == [id |-> 0, run |-> 0, status |-> ""]

\* ------------------------------------------------- gh: errors and retries
\* An error text is the set of the fragments it contains that the
\* classification or the retry policy looks for; the empty set is a text
\* with none of them ("some other error").
Fragments ==
    {"401", "403", "rate limit", "404", "429", "502", "503", "504",
     "timeout", "Timeout", "connection reset", "connection refused"}

MaxMarkers == 3

ErrorTexts == {T \in SUBSET Fragments : Cardinality(T) <= MaxMarkers}

\* The patterns that occur inside a fragment.
Substrings(f) ==
    CASE f = "connection reset"   -> {"connection reset", "connection"}
      [] f = "connection refused" -> {"connection refused", "connection"}
      [] OTHER                    -> {f}

ToLower(s) == IF s = "Timeout" THEN "timeout" ELSE s

\* strings.Contains: case-sensitive.
Contains(T, pat) == \E f \in T : pat \in Substrings(f)

\* containsIgnoreCase (through containsInMiddle and equalIgnoreCase), for
\* the lower-case patterns it is called with.
containsIgnoreCase(T, pat) ==
    \E f \in T : \E s \in Substrings(f) : ToLower(s) = pat

\* An error value: its dynamic type, the fragments of its Error() text, the
\* message wrapError put in front, and the flag of a *RetryableError.  The
\* messages of wrapError and of the typed errors contain no fragment.
NoErr == [class |-> "nil", marks |-> {}, note |-> "", retryable |-> FALSE]

NewError(T) == [class |-> "", marks |-> T, note |-> "", retryable |-> FALSE]

RetryableError(T, b) ==
    [class |-> "RetryableError", marks |-> T, note |-> "", retryable |-> b]

Wrapped(class, note, err) ==
    [class |-> class, marks |-> err.marks, note |-> note, retryable |-> FALSE]

\* Client.wrapError: the first marker found, in this order, decides.
wrapError(err) ==
    IF err = NoErr THEN NoErr
    ELSE IF Contains(err.marks, "401")
    THEN Wrapped("AuthError", "authentication failed", err)
    ELSE IF Contains(err.marks, "403")
    THEN IF Contains(err.marks, "rate limit")
         THEN Wrapped("RateLimitError", "rate limit exceeded", err)
         ELSE Wrapped("AuthError", "access forbidden", err)
    ELSE IF Contains(err.marks, "404")
    THEN Wrapped("NotFoundError", "resource not found", err)
    ELSE IF Contains(err.marks, "429")
    THEN Wrapped("RateLimitError", "too many requests", err)
    ELSE IF \/ Contains(err.marks, "502")
            \/ Contains(err.marks, "503")
            \/ Contains(err.marks, "504")
    THEN Wrapped("", "server error (will retry)", err)
    ELSE IF Contains(err.marks, "timeout") \/ Contains(err.marks, "connection")
    THEN Wrapped("", "network error (will retry)", err)
    ELSE err

retryablePatterns ==
    {"502", "503", "504", "429", "timeout", "connection refused",
     "network is unreachable", "temporary failure", "service unavailable"}

IsRetryable(err) ==
    IF err = NoErr THEN FALSE
    ELSE IF err.class = "RetryableError" THEN err.retryable
    ELSE \E pattern \in retryablePatterns : containsIgnoreCase(err.marks, pattern)

DefaultRetryConfig == [MaxRetries |-> 3]

\* What RetryWithBackoff returns: nil, or "failed after <retries> retries"
\* wrapping the last error.
Returned(ok, retries, err) == [ok |-> ok, retries |-> retries, err |-> err]

\* A RetryWithBackoff call: who calls ("fn": any function, "Get":
\* Client.Get), config.MaxRetries, the loop variable, the last error, and
\* whether it has returned and what.  raw and hist are history: the error
\* the last REST call gave and the outcome of every call of fn so far.
NewCall(via, maxRetries) ==
    [via |-> via, maxRetries |-> maxRetries, attempt |-> 0,
     lastErr |-> NoErr, done |-> FALSE, result |-> Returned(TRUE, 0, NoErr),
     raw |-> NoErr, hist |-> <<>>]

NoCall == NewCall("", 0)

\* One iteration of the loop that does not stop after a non-retryable error.
RetryWithBackoff_NoRetryableCheck(c, err) ==
    IF err = NoErr
    THEN [c EXCEPT !.done = TRUE, !.result = Returned(TRUE, 0, NoErr)]
    ELSE IF c.attempt = c.maxRetries
    THEN [c EXCEPT !.lastErr = err, !.done = TRUE,
                   !.result = Returned(FALSE, c.maxRetries, err)]
    ELSE [c EXCEPT !.lastErr = err, !.attempt = @ + 1]

\* One iteration of the loop of RetryWithBackoff, in which fn returned err
\* (NoErr: nil), with the return that follows a break.
RetryWithBackoff(c, err) ==
    IF err = NoErr
    THEN [c EXCEPT !.done = TRUE, !.result = Returned(TRUE, 0, NoErr)]
    ELSE IF c.attempt = c.maxRetries \/ ~IsRetryable(err)
    THEN [c EXCEPT !.lastErr = err, !.done = TRUE,
                   !.result = Returned(FALSE, c.maxRetries, err)]
    ELSE [c EXCEPT !.lastErr = err, !.attempt = @ + 1]


VARIABLES
    m,          \* the session state (tui.Model), see NewModel
    config,     \* *config.Config, shared by the model and every command closure
    inflight,   \* bag of pending commands (phase "cmd") and messages (phase "msg")
    remote,     \* remote status of the live jobs
    notified,   \* history: runs for which triggerNotifications has fired
    last,       \* history: the event the last Update step processed
    call        \* one gh.RetryWithBackoff call: its loop state and history

vars == <<m, config, inflight, remote, notified, last, call>>

\* ---------------------------------------------------------------- remote
JobStatus(rem, j) == IF j \in LiveJobs THEN rem[j] ELSE StatusCompleted

\* A run is completed once all its jobs are.
RunStatus(rem, r) ==
    IF \A i \in 1..Len(JobIdsOf(r)) : JobStatus(rem, JobIdsOf(r)[i]) = StatusCompleted
    THEN StatusCompleted ELSE StatusInProgress

\* The conclusion a run ends with (present iff the run is completed).
Conclusion(r) ==
    CASE r = 2 -> "failure"
      [] r = 4 -> "neutral"
      [] r = 5 -> "skipped"
      [] r = 6 -> "cancelled"
      [] r = 7 -> "timed_out"
      [] r = 8 -> "action_required"
      [] OTHER -> "success"

\* The status parameter of the runs API: a run is listed when the
\* parameter is absent or names its status or its conclusion.
HasStatus(run, status) == status = "" \/ run.status = status \/ run.conclusion = status

RunSnap(rem, r) ==
    [id |-> r, status |-> RunStatus(rem, r),
     conclusion |-> IF RunStatus(rem, r) = StatusCompleted THEN Conclusion(r) ELSE ""]

JobSnap(rem, j) == [id |-> j, run |-> RunOfJob(j), status |-> JobStatus(rem, j)]

\* Log text of a job: grows while the job runs.
LogText(rem, j) == <<j, IF JobStatus(rem, j) = StatusCompleted THEN 2 ELSE 1>>

\* fmt.Sprintf("Error loading logs: %v", err), in place of the log of job j.
ErrorLog(j) == <<j, -1>>

\* A text is the sequence of its lines (<<>> is the empty string); a line
\* is a number and EmptyLine the line without characters.
EmptyLine == 0

\* strings.Split(text, "\n"): the empty string has one, empty, line.
Split(text) == IF text = <<>> THEN <<EmptyLine>> ELSE text

\* strings.TrimSuffix(text, "\n")
TrimSuffix(text) ==
    IF text # <<>> /\ text[Len(text)] = EmptyLine
    THEN SubSeq(text, 1, Len(text) - 1) ELSE text

\* ------------------------------------------------------- structured logs
\* The log archive of a job: its readable files in archive order, each the
\* step number and step name its file name parses to (0 for a name without
\* a number) and its content.  A content is one line; the numbered steps
\* have the name 1, a file without number the name 1 or 2.
MaxFiles == 3

StepFiles ==
    {f \in [number : 0..2, name : 1..2, content : {<<7>>, <<8>>}] :
        f.number # 0 => f.name = 1}

Archives == UNION {[1..n -> StepFiles] : n \in 0..MaxFiles}

\* sort.Slice by step number: the order of entries with equal numbers is
\* not specified, so every ascending arrangement of the entries is a
\* possible result.
SortedEntries(archive) ==
    LET n == Len(archive)
        perms == {p \in [1..n -> 1..n] : \A i, k \in 1..n : i # k => p[i] # p[k]}
    IN  {[i \in 1..n |-> archive[p[i]]] :
            p \in {q \in perms : \A i, k \in 1..n :
                                    i < k => archive[q[i]].number <= archive[q[k]].number}}

\* The line "=== {number}_{name} ===" of a step, as one line.
StepHeader(step) == -(10 * step.number + step.name)

\* What one step adds to a combined text: header, content, blank line.
StepBlock(step) == <<StepHeader(step)>> \o step.content \o <<EmptyLine>>

\* A combined text whose steps are not followed by the blank line.
RECURSIVE CombinedOf_NoBlankLine(_)
CombinedOf_NoBlankLine(steps) ==
    IF steps = <<>> THEN <<>>
    ELSE <<StepHeader(Head(steps))>> \o Head(steps).content
         \o CombinedOf_NoBlankLine(Tail(steps))

\* The combined text written while the steps are built, in their order.
RECURSIVE CombinedOf(_)
CombinedOf(steps) ==
    IF steps = <<>> THEN <<>> ELSE StepBlock(Head(steps)) \o CombinedOf(Tail(steps))

\* gh.ParsedLogs as extractLogsFromZIPStructured builds it from the sorted
\* entries (the lookup StepsByKey is not modelled); `present` is FALSE
\* for the nil pointer.
NoParsedLogs == [present |-> FALSE, steps |-> <<>>, combined |-> <<>>]

ParsedLogs(entries) == [present |-> TRUE, steps |-> entries, combined |-> CombinedOf(entries)]

\* ParsedLogs.FilteredContent: the full combined text for an empty filter,
\* else the blocks of the steps whose number is in the filter, in the order
\* of the steps.
RECURSIVE FilteredBlocks(_, _)
FilteredBlocks(steps, numbers) ==
    IF steps = <<>> THEN <<>>
    ELSE (IF Head(steps).number \in numbers THEN StepBlock(Head(steps)) ELSE <<>>)
         \o FilteredBlocks(Tail(steps), numbers)

FilteredContent(pl, stepNumbers) ==
    IF Len(stepNumbers) = 0 THEN pl.combined
    ELSE FilteredBlocks(pl.steps, {stepNumbers[i] : i \in 1..Len(stepNumbers)})

\* gh.WorkflowRun.IsCompleted / IsSuccess / IsFailure
IsCompleted(run) == run.status = StatusCompleted

IsSuccess(run) == run.conclusion \in {"success", "neutral", "skipped"}

\* IsFailure that knows the conclusion "failure" only.
IsFailure_OnlyFailure(run) == run.conclusion = "failure"

IsFailure(run) == run.conclusion \in {"failure", "cancelled", "timed_out", "action_required"}

\* ------------------------------------------------- commands and messages
\* One pending item: a command not yet executed (phase "cmd") or a message
\* not yet consumed by Update (phase "msg").  The closure of a command holds
\* a copy of the model (run, job, content are the fields it reads) and the
\* shared config pointer.  `issued` is the config at the moment the command
\* was issued and `used` the config its execution read (history fields),
\* `oks` the sources whose fetch succeeded in an aggregate fetch (history);
\* `ids` is the multi-job selection of the closure's model copy and
\* `contents` the map a MultiJobLogsLoadedMsg carries; `idx1`, `idx2` (with
\* `runs`) are the comparison picks of the closure's model copy and
\* `logs1`, `logs2` the two texts a CompareLogsLoadedMsg carries; `logs`
\* is what a ParsedLogsLoadedMsg carries; `filter` is the status filter of
\* the closure's model copy;
\* `src` tells the timer that produced a TickMsg (history: TickMsg itself
\* carries only the time).
Item(kind, phase) ==
    [kind |-> kind, phase |-> phase, run |-> 0, job |-> 0, content |-> <<>>,
     issued |-> <<"", "">>, used |-> <<"", "">>, src |-> "",
     runs |-> <<>>, sruns |-> <<>>, jobs |-> <<>>, branches |-> <<>>, err |-> "",
     oks |-> {}, ids |-> <<>>, contents |-> <<>>,
     idx1 |-> 0, idx2 |-> 0, logs1 |-> <<>>, logs2 |-> <<>>, logs |-> NoParsedLogs,
     filter |-> ""]

NoCmd == Item("none", "cmd")

CfgOf(cfg) == <<cfg.repo, cfg.branch>>

Cmd(kind, mm, cfg) ==
    [Item(kind, "cmd") EXCEPT !.issued = CfgOf(cfg), !.used = CfgOf(cfg)]

\* The closures, as issued (model.go "Commands").
fetchWorkflowRuns(mm, cfg) ==
    [Cmd("fetchWorkflowRuns", mm, cfg) EXCEPT !.filter = mm.currentStatusFilter]

fetchMultiRepoRuns(mm, cfg) == Cmd("fetchMultiRepoRuns", mm, cfg)

fetchJobs(mm, cfg) == [Cmd("fetchJobs", mm, cfg) EXCEPT !.run = mm.run.id]

fetchJobDetails(mm, cfg, jobID) == [Cmd("fetchJobDetails", mm, cfg) EXCEPT !.job = jobID]

fetchLogs(mm, cfg, jobID) == [Cmd("fetchLogs", mm, cfg) EXCEPT !.job = jobID]

updateLogs(mm, cfg, jobID) ==
    [Cmd("updateLogs", mm, cfg) EXCEPT !.job = jobID, !.content = mm.logContent]

fetchMultiJobLogs(mm, cfg) ==
    [Cmd("fetchMultiJobLogs", mm, cfg) EXCEPT !.ids = mm.multiJobIDs]

fetchLogsStructured(mm, cfg, jobID) ==
    [Cmd("fetchLogsStructured", mm, cfg) EXCEPT !.job = jobID]

fetchComparisonLogs(mm, cfg) ==
    [Cmd("fetchComparisonLogs", mm, cfg) EXCEPT
        !.runs = mm.runs, !.idx1 = mm.compareRunIdx1, !.idx2 = mm.compareRunIdx2]

\* tea.Quit: the command whose message (tea.QuitMsg) ends the program.
Quit == Item("Quit", "cmd")

QuitMsg == Item("QuitMsg", "msg")

\* tea.Tick: the timer is pending until it fires as a TickMsg.
Tick(src) == [Item("TickMsg", "msg") EXCEPT !.src = src]

\* scheduleLogUpdate: value receiver, reads the streaming flag of its copy.
scheduleLogUpdate(mm) == IF ~mm.logStreaming THEN NoCmd ELSE Tick("log")

\* checkStreamingStatus: VALUE receiver.  It sets logStreaming on its own
\* copy of the model and schedules from that copy; the caller's model is
\* not changed, only the command is returned.
checkStreamingStatus(mm) ==
    LET hits == {i \in 1..Len(mm.jobs) : mm.jobs[i].id = mm.logJobID}
    IN  IF hits = {} THEN NoCmd
        ELSE LET job == mm.jobs[CHOOSE i \in hits : \A k \in hits : i <= k]
                 copy == [mm EXCEPT !.logStreaming =
                             job.status = StatusInProgress \/ job.status = StatusQueued]
             IN  IF copy.logStreaming THEN scheduleLogUpdate(copy) ELSE NoCmd

\* scheduleNextPoll without the watching test.
scheduleNextPoll_Always(mm) == Tick("poll")

\* scheduleNextPoll
scheduleNextPoll(mm) == IF ~mm.watching THEN NoCmd ELSE Tick("poll")

\* updateExitCode
updateExitCode(mm) ==
    IF mm.run = NoRun THEN [mm EXCEPT !.exitCode = 2]
    ELSE IF IsSuccess(mm.run) THEN [mm EXCEPT !.exitCode = 0]
    ELSE IF IsFailure(mm.run) THEN [mm EXCEPT !.exitCode = 1]
    ELSE [mm EXCEPT !.exitCode = 0]

\* What one Update step returns: the new model, the (shared) config as the
\* step left it, the command issued (NoCmd for nil) and the run for which
\* triggerNotifications was called in the step (0 for none).
Ret(mm, cfg, cmd) == [m |-> mm, cfg |-> cfg, cmd |-> cmd, notify |-> 0]

\* ------------------------------------------------------- Update: messages
\* Go slices are indexed from 0, TLA+ sequences from 1.
At(seq, i) == seq[i + 1]

\* case RunsLoadedMsg
OnRunsLoadedMsg(mm, cfg, msg) ==
    LET m1 == [mm EXCEPT !.runs = msg.runs]
    IN  IF Len(m1.runs) > 0
        THEN LET idx == IF m1.selectedRunIndex >= Len(m1.runs) THEN 0 ELSE m1.selectedRunIndex
                 m2 == [m1 EXCEPT !.selectedRunIndex = idx, !.run = At(m1.runs, idx)]
             IN  Ret(m2, cfg, fetchJobs(m2, cfg))
        ELSE Ret([m1 EXCEPT !.run = NoRun, !.state = "Ready"], cfg, NoCmd)

\* case MultiRepoRunsLoadedMsg: writes Owner and Repo through the config pointer.
OnMultiRepoRunsLoadedMsg(mm, cfg, msg) ==
    LET m1 == [mm EXCEPT !.sourcedRuns = msg.sruns]
    IN  IF Len(m1.sourcedRuns) > 0
        THEN LET idx == IF m1.selectedSourcedRun >= Len(m1.sourcedRuns)
                        THEN 0 ELSE m1.selectedSourcedRun
                 sr == At(m1.sourcedRuns, idx)
                 m2 == [m1 EXCEPT !.selectedSourcedRun = idx, !.run = sr.run]
                 cfg2 == [cfg EXCEPT !.repo = sr.repo]
             IN  Ret(m2, cfg2, fetchJobs(m2, cfg2))
        ELSE Ret([m1 EXCEPT !.run = NoRun, !.state = "Ready"], cfg, NoCmd)

\* case BranchesLoadedMsg
OnBranchesLoadedMsg(mm, cfg, msg) ==
    Ret([mm EXCEPT !.branches = msg.branches, !.state = "BranchSelection"], cfg, NoCmd)

\* case JobsLoadedMsg without the watching test on the completion branch.
OnJobsLoadedMsg_AnyCompleted(mm, cfg, msg) ==
    LET m1 == [mm EXCEPT !.jobs = msg.jobs,
                         !.state = IF mm.watching THEN "Watching" ELSE "Ready"]
        done == m1.run # NoRun /\ IsCompleted(m1.run)
        m2 == IF done
              THEN [m1 EXCEPT !.watching = FALSE, !.state = "Ready", !.notificationSent = TRUE]
              ELSE m1
        m3 == updateExitCode(m2)
    IN  [m |-> m3, cfg |-> cfg, cmd |-> scheduleNextPoll(m3),
         notify |-> IF done /\ ~m1.notificationSent THEN m1.run.id ELSE 0]

\* case JobsLoadedMsg
OnJobsLoadedMsg(mm, cfg, msg) ==
    LET m1 == [mm EXCEPT !.jobs = msg.jobs,
                         !.state = IF mm.watching THEN "Watching" ELSE "Ready"]
        done == m1.watching /\ m1.run # NoRun /\ IsCompleted(m1.run)
        m2 == IF done
              THEN [m1 EXCEPT !.watching = FALSE, !.state = "Ready", !.notificationSent = TRUE]
              ELSE m1
        m3 == updateExitCode(m2)
    IN  [m |-> m3, cfg |-> cfg, cmd |-> scheduleNextPoll(m3),
         notify |-> IF done /\ ~m1.notificationSent THEN m1.run.id ELSE 0]

\* case JobDetailsLoadedMsg
OnJobDetailsLoadedMsg(mm, cfg, msg) ==
    Ret([mm EXCEPT !.selectedJob = msg.jobs[1], !.state = "JobDetails"], cfg, NoCmd)

\* case LogLoadedMsg with checkStreamingStatus on a pointer receiver: the
\* streaming flag it computes stays in the session.
OnLogLoadedMsg_FlagKept(mm, cfg, msg) ==
    LET m1 == [mm EXCEPT !.logContent = msg.content, !.state = "LogViewer"]
        m2 == [m1 EXCEPT !.logStreaming = checkStreamingStatus(m1) # NoCmd]
    IN  Ret(m2, cfg, checkStreamingStatus(m1))

\* case LogLoadedMsg
OnLogLoadedMsg(mm, cfg, msg) ==
    LET m1 == [mm EXCEPT !.logContent = msg.content, !.state = "LogViewer"]
    IN  Ret(m1, cfg, checkStreamingStatus(m1))

\* case LogUpdatedMsg: a changed content is stored and, while streaming,
\* the viewer scrolls to the bottom.
OnLogUpdatedMsg(mm, cfg, msg) ==
    LET lines == Split(TrimSuffix(msg.content))
        maxLines == mm.height - 8
        m1 == IF msg.content # mm.logContent
              THEN [mm EXCEPT !.logContent = msg.content,
                              !.logScrollOffset =
                                  IF mm.logStreaming /\ Len(lines) > maxLines
                                  THEN Len(lines) - maxLines ELSE @]
              ELSE mm
    IN  Ret(m1, cfg, scheduleLogUpdate(m1))

\* case ParsedLogsLoadedMsg
OnParsedLogsLoadedMsg(mm, cfg, msg) ==
    Ret([mm EXCEPT !.parsedLogs = msg.logs,
                   !.logContent = IF msg.logs.present THEN msg.logs.combined ELSE @,
                   !.state = "LogFilter"], cfg, NoCmd)

\* case TickMsg
OnTickMsg(mm, cfg, msg) ==
    IF mm.state = "LogViewer" /\ mm.logStreaming
    THEN Ret(mm, cfg, updateLogs(mm, cfg, mm.logJobID))
    ELSE IF mm.watching
    THEN LET m1 == [mm EXCEPT !.state = "Loading"]
         IN  Ret(m1, cfg, fetchWorkflowRuns(m1, cfg))
    ELSE Ret(mm, cfg, NoCmd)

\* case ErrMsg without storing the error.
OnErrMsg_NotStored(mm, cfg, msg) ==
    Ret([mm EXCEPT !.state = "Error", !.exitCode = 2], cfg, NoCmd)

\* buildMultiJobContent: for every selected job that has an entry, a
\* header naming the job (-id here) and the entry.
RECURSIVE JoinJobContents(_, _)
JoinJobContents(ids, contents) ==
    IF ids = <<>> THEN <<>>
    ELSE (IF Head(ids) \in DOMAIN contents
          THEN <<-Head(ids)>> \o contents[Head(ids)] ELSE <<>>)
         \o JoinJobContents(Tail(ids), contents)

buildMultiJobContent(mm) ==
    IF Len(mm.multiJobIDs) = 0 THEN <<>>
    ELSE JoinJobContents(mm.multiJobIDs, mm.multiJobContents)

\* case MultiJobLogsLoadedMsg
OnMultiJobLogsLoadedMsg(mm, cfg, msg) ==
    LET m1 == [mm EXCEPT !.multiJobContents = msg.contents, !.multiJobMode = TRUE,
                         !.state = "LogViewer"]
    IN  Ret([m1 EXCEPT !.logContent = buildMultiJobContent(m1)], cfg, NoCmd)

\* The performance limit of computeDiff, in lines.
DiffLineLimit == 10000

\* One round of the loop of computeDiff (i counts from 0): a line beyond
\* the end of a text reads as the empty line; equal lines give one context
\* entry, unequal lines a removed entry for a non-empty left line and an
\* added entry for a non-empty right line.  An entry is the marker, the
\* line it is prefixed to, and the colour of the parallel slice.
DiffAt(lines1, lines2, i) ==
    LET line1 == IF i < Len(lines1) THEN lines1[i + 1] ELSE EmptyLine
        line2 == IF i < Len(lines2) THEN lines2[i + 1] ELSE EmptyLine
    IN  IF line1 = line2
        THEN <<[mark |-> "  ", line |-> line1, color |-> 0]>>
        ELSE (IF line1 # EmptyLine
              THEN <<[mark |-> "- ", line |-> line1, color |-> -1]>> ELSE <<>>)
             \o (IF line2 # EmptyLine
                 THEN <<[mark |-> "+ ", line |-> line2, color |-> 1]>> ELSE <<>>)

RECURSIVE DiffFrom(_, _, _, _)
DiffFrom(lines1, lines2, i, maxLen) ==
    IF i >= maxLen THEN <<>>
    ELSE DiffAt(lines1, lines2, i) \o DiffFrom(lines1, lines2, i + 1, maxLen)

\* computeDiff
computeDiff(logs1, logs2) ==
    LET lines1 == Split(logs1)
        lines2 == Split(logs2)
        longest == IF Len(lines2) > Len(lines1) THEN Len(lines2) ELSE Len(lines1)
        maxLen == IF longest > DiffLineLimit THEN DiffLineLimit ELSE longest
    IN  DiffFrom(lines1, lines2, 0, maxLen)

\* case CompareLogsLoadedMsg
OnCompareLogsLoadedMsg(mm, cfg, msg) ==
    Ret([mm EXCEPT !.compareLogs1 = msg.logs1, !.compareLogs2 = msg.logs2,
                   !.compareDiff = computeDiff(msg.logs1, msg.logs2),
                   !.compareScrollOff = 0, !.state = "CompareView"], cfg, NoCmd)

\* case ErrMsg
OnErrMsg(mm, cfg, msg) ==
    Ret([mm EXCEPT !.err = msg.err, !.state = "Error", !.exitCode = 2], cfg, NoCmd)

\* Model.Update for a completion message (the type switch).
Update(mm, cfg, msg) ==
    CASE msg.kind = "RunsLoadedMsg" -> OnRunsLoadedMsg(mm, cfg, msg)
      [] msg.kind = "MultiRepoRunsLoadedMsg" -> OnMultiRepoRunsLoadedMsg(mm, cfg, msg)
      [] msg.kind = "BranchesLoadedMsg" -> OnBranchesLoadedMsg(mm, cfg, msg)
      [] msg.kind = "JobsLoadedMsg" -> OnJobsLoadedMsg(mm, cfg, msg)
      [] msg.kind = "JobDetailsLoadedMsg" -> OnJobDetailsLoadedMsg(mm, cfg, msg)
      [] msg.kind = "LogLoadedMsg" -> OnLogLoadedMsg(mm, cfg, msg)
      [] msg.kind = "LogUpdatedMsg" -> OnLogUpdatedMsg(mm, cfg, msg)
      [] msg.kind = "MultiJobLogsLoadedMsg" -> OnMultiJobLogsLoadedMsg(mm, cfg, msg)
      [] msg.kind = "CompareLogsLoadedMsg" -> OnCompareLogsLoadedMsg(mm, cfg, msg)
      [] msg.kind = "ParsedLogsLoadedMsg" -> OnParsedLogsLoadedMsg(mm, cfg, msg)
      [] msg.kind = "TickMsg" -> OnTickMsg(mm, cfg, msg)
      [] msg.kind = "ErrMsg" -> OnErrMsg(mm, cfg, msg)
      [] OTHER -> Ret(mm, cfg, NoCmd)

\* ----------------------------------------------------------- Update: keys
\* NewModel: the options of the status filter
statusFilterOptions == <<"", "success", "failure", "in_progress", "completed", "queued">>

\* The switch case of handleKey that a physical key reaches: the first case
\* whose binding contains the key (keys.go DefaultKeyMap).  "l" is bound to
\* Logs and to NextRun, and the Logs case comes first; "b" (BranchSelect) has
\* a binding but no case.
KeyCase(k) ==
    CASE k \in {"q", "ctrl+c"} -> "Quit"
      [] k = "r" -> "Refresh"
      [] k = "w" -> "Watch"
      [] k \in {"up", "k"} -> "Up"
      [] k \in {"down", "j"} -> "Down"
      [] k = "enter" -> "Enter"
      [] k = "l" -> "Logs"
      [] k = "n" -> "NextMatch"
      [] k = "N" -> "PrevMatch"
      [] k = "/" -> "Search"
      [] k = "right" -> "NextRun"
      [] k \in {"h", "left"} -> "PrevRun"
      [] k = "f" -> "Filter"
      [] k = "?" -> "Help"
      [] k = "esc" -> "Escape"
      [] k = " " -> "Space"
      [] k = "m" -> "LogMulti"
      [] k = "v" -> "LogViewToggle"
      [] k = "c" -> "LogCompare"
      [] k = "F" -> "LogFilter"
      [] OTHER -> "default"

\* A refresh that shows the loading screen without fetching.
KeyRefresh_NoFetch(mm, cfg) ==
    Ret([mm EXCEPT !.err = "", !.state = "Loading"], cfg, NoCmd)

\* case Refresh
KeyRefresh(mm, cfg) ==
    LET m1 == [mm EXCEPT !.err = "", !.state = "Loading"]
    IN  Ret(m1, cfg, fetchWorkflowRuns(m1, cfg))

\* case Watch
KeyWatch(mm, cfg) ==
    LET m1 == [mm EXCEPT !.watching = ~mm.watching]
    IN  IF m1.watching
        THEN LET m2 == [m1 EXCEPT !.notificationSent = FALSE, !.state = "Watching"]
             IN  Ret(m2, cfg, scheduleNextPoll(m2))
        ELSE Ret([m1 EXCEPT !.state = "Ready"], cfg, NoCmd)

\* case Up (scrolling in the compare view is not modelled)
KeyUp(mm, cfg) ==
    IF mm.state = "LogViewer"
    THEN Ret(IF mm.logScrollOffset > 0
             THEN [mm EXCEPT !.logScrollOffset = @ - 1] ELSE mm, cfg, NoCmd)
    ELSE IF mm.state = "BranchSelection"
    THEN Ret(IF mm.selectedBranchIndex > 0
             THEN [mm EXCEPT !.selectedBranchIndex = @ - 1] ELSE mm, cfg, NoCmd)
    ELSE IF mm.state = "StatusFilter"
    THEN Ret(IF mm.selectedFilterIndex > 0
             THEN [mm EXCEPT !.selectedFilterIndex = @ - 1] ELSE mm, cfg, NoCmd)
    ELSE IF mm.state = "LogFilter"
    THEN Ret(IF mm.logFilterIndex > 0
             THEN [mm EXCEPT !.logFilterIndex = @ - 1] ELSE mm, cfg, NoCmd)
    ELSE IF mm.state = "MultiJobSelect"
    THEN Ret(IF mm.multiJobSelectIdx > 0
             THEN [mm EXCEPT !.multiJobSelectIdx = @ - 1] ELSE mm, cfg, NoCmd)
    ELSE IF mm.state = "CompareSelect"
    THEN Ret(IF mm.compareCursor > 0
             THEN [mm EXCEPT !.compareCursor = @ - 1] ELSE mm, cfg, NoCmd)
    ELSE IF mm.state = "CompareView" THEN Ret(mm, cfg, NoCmd)
    ELSE IF mm.multiRepoMode /\ mm.state = "Ready"
    THEN Ret(IF mm.selectedSourcedRun > 0
             THEN [mm EXCEPT !.selectedSourcedRun = @ - 1] ELSE mm, cfg, NoCmd)
    ELSE Ret(IF mm.cursor > 0 THEN [mm EXCEPT !.cursor = @ - 1] ELSE mm, cfg, NoCmd)

\* case Down (with showingJobDetails set it moves the step cursor of the
\* details panel, which is not modelled)
KeyDown(mm, cfg) ==
    IF mm.state = "LogViewer"
    THEN LET lines == Split(TrimSuffix(mm.logContent))
             maxScroll == Len(lines) - (mm.height - 8)
         IN  Ret(IF maxScroll > 0 /\ mm.logScrollOffset < maxScroll
                 THEN [mm EXCEPT !.logScrollOffset = @ + 1] ELSE mm, cfg, NoCmd)
    ELSE IF mm.state = "BranchSelection"
    THEN Ret(IF mm.selectedBranchIndex < Len(mm.branches) - 1
             THEN [mm EXCEPT !.selectedBranchIndex = @ + 1] ELSE mm, cfg, NoCmd)
    ELSE IF mm.state = "StatusFilter"
    THEN Ret(IF mm.selectedFilterIndex < Len(statusFilterOptions) - 1
             THEN [mm EXCEPT !.selectedFilterIndex = @ + 1] ELSE mm, cfg, NoCmd)
    ELSE IF mm.state = "LogFilter"
    THEN Ret(IF mm.parsedLogs.present /\ mm.logFilterIndex < Len(mm.parsedLogs.steps) - 1
             THEN [mm EXCEPT !.logFilterIndex = @ + 1] ELSE mm, cfg, NoCmd)
    ELSE IF mm.state = "MultiJobSelect"
    THEN Ret(IF mm.multiJobSelectIdx < Len(mm.jobs) - 1
             THEN [mm EXCEPT !.multiJobSelectIdx = @ + 1] ELSE mm, cfg, NoCmd)
    ELSE IF mm.state = "CompareSelect"
    THEN Ret(IF mm.compareCursor < Len(mm.runs) - 1
             THEN [mm EXCEPT !.compareCursor = @ + 1] ELSE mm, cfg, NoCmd)
    ELSE IF mm.state = "CompareView" THEN Ret(mm, cfg, NoCmd)
    ELSE IF mm.multiRepoMode /\ mm.state = "Ready"
    THEN Ret(IF mm.selectedSourcedRun < Len(mm.sourcedRuns) - 1
             THEN [mm EXCEPT !.selectedSourcedRun = @ + 1] ELSE mm, cfg, NoCmd)
    ELSE IF mm.showingJobDetails THEN Ret(mm, cfg, NoCmd)
    ELSE Ret(IF mm.cursor < Len(mm.jobs) - 1 THEN [mm EXCEPT !.cursor = @ + 1] ELSE mm,
             cfg, NoCmd)

\* Apply the multi-job selection (cases Enter and LogMulti).
ApplyMultiJobSelection(mm, cfg) ==
    IF Len(mm.multiJobIDs) > 0
    THEN LET m1 == [mm EXCEPT !.state = "Loading"]
         IN  Ret(m1, cfg, fetchMultiJobLogs(m1, cfg))
    ELSE Ret([mm EXCEPT !.state = "Ready"], cfg, NoCmd)

\* Pick the run under the compare cursor (cases Enter and LogCompare): the
\* first pick moves the cursor off run 0, the second pick, if it is another
\* run, starts the fetch.
PickCompareRun(mm, cfg) ==
    IF mm.compareSelectStep = 0
    THEN Ret([mm EXCEPT !.compareRunIdx1 = mm.compareCursor, !.compareSelectStep = 1,
                        !.compareCursor = IF mm.compareCursor = 0 /\ Len(mm.runs) > 1
                                          THEN 1 ELSE @], cfg, NoCmd)
    ELSE IF mm.compareCursor # mm.compareRunIdx1
    THEN LET m1 == [mm EXCEPT !.compareRunIdx2 = mm.compareCursor, !.state = "Loading"]
         IN  Ret(m1, cfg, fetchComparisonLogs(m1, cfg))
    ELSE Ret(mm, cfg, NoCmd)

\* A toggle that appends the step number without looking for it.
toggleStepFilter_AlwaysAppend(numbers, stepNum) == Append(numbers, stepNum)

\* toggleStepFilter, on the filter: the first occurrence of the step number
\* is removed, an absent number is appended.
toggleStepFilter(numbers, stepNum) ==
    LET hits == {i \in 1..Len(numbers) : numbers[i] = stepNum}
    IN  IF hits # {}
        THEN LET i == CHOOSE i \in hits : \A k \in hits : i <= k
             IN  SubSeq(numbers, 1, i - 1) \o SubSeq(numbers, i + 1, Len(numbers))
        ELSE Append(numbers, stepNum)

\* applyLogFilter: nothing without parsed logs.
applyLogFilter(mm) ==
    IF ~mm.parsedLogs.present THEN mm
    ELSE [mm EXCEPT !.logContent =
                        IF Len(mm.logFilterStepNumbers) = 0 THEN mm.parsedLogs.combined
                        ELSE FilteredContent(mm.parsedLogs, mm.logFilterStepNumbers),
                    !.logScrollOffset = 0]

\* Commit the option under the cursor of the status filter and reload
\* the runs (cases Enter and Filter).
ApplyStatusFilter(mm, cfg) ==
    IF mm.selectedFilterIndex >= 0 /\ mm.selectedFilterIndex < Len(statusFilterOptions)
    THEN LET m1 == [mm EXCEPT !.currentStatusFilter = At(statusFilterOptions, mm.selectedFilterIndex),
                              !.state = "Loading", !.selectedRunIndex = 0]
         IN  Ret(m1, cfg, fetchWorkflowRuns(m1, cfg))
    ELSE Ret(mm, cfg, NoCmd)

\* case Enter
KeyEnter(mm, cfg) ==
    IF mm.state = "LogFilter"
    THEN Ret([applyLogFilter(mm) EXCEPT !.state = "LogViewer"], cfg, NoCmd)
    ELSE IF mm.state = "MultiJobSelect" THEN ApplyMultiJobSelection(mm, cfg)
    ELSE IF mm.state = "CompareSelect" THEN PickCompareRun(mm, cfg)
    ELSE IF mm.multiRepoMode /\ mm.state = "Ready" /\ Len(mm.sourcedRuns) > 0
    THEN LET sr == At(mm.sourcedRuns, mm.selectedSourcedRun)
             m1 == [mm EXCEPT !.run = sr.run, !.cursor = 0, !.state = "Loading"]
             cfg1 == [cfg EXCEPT !.repo = sr.repo]
         IN  Ret(m1, cfg1, fetchJobs(m1, cfg1))
    ELSE IF mm.state = "Ready" /\ Len(mm.jobs) > 0 /\ mm.cursor >= 0 /\ mm.cursor < Len(mm.jobs)
    THEN LET m1 == [mm EXCEPT !.showingJobDetails = TRUE]
         IN  Ret(m1, cfg, fetchJobDetails(m1, cfg, At(mm.jobs, mm.cursor).id))
    ELSE IF mm.state = "JobDetails"
    THEN Ret([mm EXCEPT !.showingJobDetails = FALSE, !.selectedJob = NoJob, !.state = "Ready"],
             cfg, NoCmd)
    ELSE IF mm.state = "BranchSelection"
    THEN IF Len(mm.branches) > 0 /\ mm.selectedBranchIndex >= 0
            /\ mm.selectedBranchIndex < Len(mm.branches)
         THEN LET cfg1 == [cfg EXCEPT !.branch = At(mm.branches, mm.selectedBranchIndex)]
                  m1 == [mm EXCEPT !.state = "Loading", !.selectedRunIndex = 0]
              IN  Ret(m1, cfg1, fetchWorkflowRuns(m1, cfg1))
         ELSE Ret(mm, cfg, NoCmd)
    ELSE IF mm.state = "StatusFilter" THEN ApplyStatusFilter(mm, cfg)
    ELSE Ret(mm, cfg, NoCmd)

\* case Logs
KeyLogs(mm, cfg) ==
    IF mm.state = "Ready" /\ Len(mm.jobs) > 0 /\ mm.cursor >= 0 /\ mm.cursor < Len(mm.jobs)
    THEN LET job == At(mm.jobs, mm.cursor)
             m1 == [mm EXCEPT !.showingLogs = TRUE, !.logScrollOffset = 0,
                              !.logSearchTerm = <<>>, !.logSearchIndex = 0,
                              !.logJobID = job.id]
         IN  Ret(m1, cfg, fetchLogs(m1, cfg, job.id))
    ELSE IF mm.state = "JobDetails" /\ mm.selectedJob # NoJob
    THEN LET m1 == [mm EXCEPT !.showingLogs = TRUE, !.logScrollOffset = 0,
                              !.logSearchTerm = <<>>, !.logSearchIndex = 0,
                              !.logJobID = mm.selectedJob.id]
         IN  Ret(m1, cfg, fetchLogs(m1, cfg, mm.selectedJob.id))
    ELSE IF mm.state = "LogViewer"
    THEN Ret([mm EXCEPT !.showingLogs = FALSE, !.logContent = <<>>, !.logJobID = 0,
                        !.logScrollOffset = 0,
                        !.logSearchTerm = <<>>, !.logSearchIndex = 0,
                        !.logStreaming = FALSE,
                        !.state = IF mm.selectedJob # NoJob THEN "JobDetails" ELSE "Ready"],
             cfg, NoCmd)
    ELSE Ret(mm, cfg, NoCmd)

\* The characters of a log line (a string is the sequence of its runes):
\* the status lines of a job log read "Go" and "Ok", the lines of a step
\* file "ok" and "no"; every other line (a job id, a header, an error
\* text) holds no letter.
LineRunes(line) ==
    CASE line = EmptyLine -> <<>>
      [] line = 1 -> <<"G", "o">>
      [] line = 2 -> <<"O", "k">>
      [] line = 7 -> <<"o", "k">>
      [] line = 8 -> <<"n", "o">>
      [] OTHER -> <<"#">>

\* strings.ToLower
ToLowerRunes(str) ==
    [i \in 1..Len(str) |->
        CASE str[i] = "G" -> "g" [] str[i] = "O" -> "o" [] str[i] = "N" -> "n"
          [] str[i] = "F" -> "f" [] OTHER -> str[i]]

\* strings.Contains
ContainsRunes(str, sub) ==
    \E i \in 0..(Len(str) - Len(sub)) : SubSeq(str, i + 1, i + Len(sub)) = sub

\* scrollToLine
scrollToLine(mm, lineNum) ==
    LET maxLines == mm.height - 10
    IN  IF lineNum < mm.logScrollOffset THEN [mm EXCEPT !.logScrollOffset = lineNum]
        ELSE IF lineNum >= mm.logScrollOffset + maxLines
        THEN [mm EXCEPT !.logScrollOffset = lineNum - maxLines + 1]
        ELSE mm

\* findSearchMatches: the (0-based) indices of the lines that contain the
\* term, whatever the case; the match index is reset only when the search
\* runs.
findSearchMatches(mm) ==
    IF mm.logSearchTerm = <<>> \/ mm.logContent = <<>>
    THEN [mm EXCEPT !.logSearchMatches = <<>>]
    ELSE LET lines == Split(TrimSuffix(mm.logContent))
             hit(i) == ContainsRunes(ToLowerRunes(LineRunes(lines[i + 1])),
                                     ToLowerRunes(mm.logSearchTerm))
         IN  [mm EXCEPT !.logSearchMatches =
                            SelectSeq([i \in 1..Len(lines) |-> i - 1], hit),
                        !.logSearchIndex = 0]

\* nextSearchMatch
nextSearchMatch(mm) ==
    IF Len(mm.logSearchMatches) = 0 THEN mm
    ELSE LET idx == (mm.logSearchIndex + 1) % Len(mm.logSearchMatches)
         IN  scrollToLine([mm EXCEPT !.logSearchIndex = idx], At(mm.logSearchMatches, idx))

\* prevSearchMatch
prevSearchMatch(mm) ==
    IF Len(mm.logSearchMatches) = 0 THEN mm
    ELSE LET idx == IF mm.logSearchIndex - 1 < 0 THEN Len(mm.logSearchMatches) - 1
                    ELSE mm.logSearchIndex - 1
         IN  scrollToLine([mm EXCEPT !.logSearchIndex = idx], At(mm.logSearchMatches, idx))

\* tea.KeyMsg.Type of a key: the keys of one printable character are
\* KeyRunes (the space key, whose type depends on the library version, is
\* taken as a key of its own).
KeyType(k) ==
    CASE k = "enter" -> "KeyEnter"
      [] k = "esc" -> "KeyEsc"
      [] k = "backspace" -> "KeyBackspace"
      [] k \in {"up", "down", "left", "right", "ctrl+c", " "} -> "other"
      [] OTHER -> "KeyRunes"

\* handleKey in search input mode: every key goes to the search buffer.
SearchInput(mm, cfg, k) ==
    CASE KeyType(k) = "KeyEnter" ->
            LET m1 == findSearchMatches([mm EXCEPT !.logSearchTerm = mm.searchInputBuffer,
                                                   !.searchInputMode = FALSE])
            IN  Ret(IF Len(m1.logSearchMatches) > 0
                    THEN scrollToLine(m1, m1.logSearchMatches[1]) ELSE m1, cfg, NoCmd)
      [] KeyType(k) = "KeyEsc" ->
            Ret([mm EXCEPT !.searchInputMode = FALSE, !.searchInputBuffer = <<>>], cfg, NoCmd)
      [] KeyType(k) = "KeyBackspace" ->
            Ret(IF Len(mm.searchInputBuffer) > 0
                THEN [mm EXCEPT !.searchInputBuffer = SubSeq(@, 1, Len(@) - 1)]
                ELSE mm, cfg, NoCmd)
      [] KeyType(k) = "KeyRunes" ->
            Ret([mm EXCEPT !.searchInputBuffer = Append(@, k)], cfg, NoCmd)
      [] OTHER -> Ret(mm, cfg, NoCmd)

\* case NextMatch
KeyNextMatch(mm, cfg) ==
    Ret(IF mm.state = "LogViewer" /\ Len(mm.logSearchMatches) > 0
        THEN nextSearchMatch(mm) ELSE mm, cfg, NoCmd)

\* case PrevMatch
KeyPrevMatch(mm, cfg) ==
    Ret(IF mm.state = "LogViewer" /\ Len(mm.logSearchMatches) > 0
        THEN prevSearchMatch(mm) ELSE mm, cfg, NoCmd)

\* case Search
KeySearch(mm, cfg) ==
    Ret(IF mm.state = "LogViewer" /\ ~mm.searchInputMode
        THEN [mm EXCEPT !.searchInputMode = TRUE, !.searchInputBuffer = <<>>]
        ELSE mm, cfg, NoCmd)

\* case NextRun
KeyNextRun(mm, cfg) ==
    IF ~mm.showingJobDetails /\ ~mm.showingLogs /\ Len(mm.runs) > 1
       /\ mm.selectedRunIndex < Len(mm.runs) - 1
    THEN LET m1 == [mm EXCEPT !.selectedRunIndex = @ + 1,
                              !.run = At(mm.runs, mm.selectedRunIndex + 1), !.cursor = 0]
         IN  Ret(m1, cfg, fetchJobs(m1, cfg))
    ELSE Ret(mm, cfg, NoCmd)

\* case PrevRun
KeyPrevRun(mm, cfg) ==
    IF ~mm.showingJobDetails /\ ~mm.showingLogs /\ Len(mm.runs) > 1
       /\ mm.selectedRunIndex > 0
    THEN LET m1 == [mm EXCEPT !.selectedRunIndex = @ - 1,
                              !.run = At(mm.runs, mm.selectedRunIndex - 1), !.cursor = 0]
         IN  Ret(m1, cfg, fetchJobs(m1, cfg))
    ELSE Ret(mm, cfg, NoCmd)

\* case Filter
KeyFilter(mm, cfg) ==
    IF mm.state = "Ready" /\ ~mm.showingJobDetails /\ ~mm.showingLogs
    THEN Ret([mm EXCEPT !.selectedFilterIndex = 0, !.state = "StatusFilter"], cfg, NoCmd)
    ELSE IF mm.state = "StatusFilter" THEN ApplyStatusFilter(mm, cfg)
    ELSE Ret(mm, cfg, NoCmd)

\* case Help
KeyHelp(mm, cfg) ==
    Ret(IF mm.state # "Help" THEN [mm EXCEPT !.state = "Help"] ELSE mm, cfg, NoCmd)

\* case Escape
KeyEscape(mm, cfg) ==
    IF mm.state = "LogFilter"
    THEN Ret([mm EXCEPT !.state = "LogViewer"], cfg, NoCmd)
    ELSE IF mm.state = "MultiJobSelect"
    THEN Ret([mm EXCEPT !.state = "Ready"], cfg, NoCmd)
    ELSE IF mm.state \in {"CompareSelect", "CompareView"}
    THEN Ret([mm EXCEPT !.state = "Ready"], cfg, NoCmd)
    ELSE Ret(mm, cfg, NoCmd)

\* A toggle that adds the job without looking at the size of the selection.
toggleMultiJobSelection_NoLimit(ids, jobID) ==
    LET hits == {i \in 1..Len(ids) : ids[i] = jobID}
    IN  IF hits # {}
        THEN LET i == CHOOSE i \in hits : \A k \in hits : i <= k
             IN  SubSeq(ids, 1, i - 1) \o SubSeq(ids, i + 1, Len(ids))
        ELSE Append(ids, jobID)

\* toggleMultiJobSelection, on the selection: the first occurrence of the
\* job is removed, an absent job is appended while fewer than 4 are held.
toggleMultiJobSelection(ids, jobID) ==
    LET hits == {i \in 1..Len(ids) : ids[i] = jobID}
    IN  IF hits # {}
        THEN LET i == CHOOSE i \in hits : \A k \in hits : i <= k
             IN  SubSeq(ids, 1, i - 1) \o SubSeq(ids, i + 1, Len(ids))
        ELSE IF Len(ids) < 4 THEN Append(ids, jobID)
        ELSE ids

\* A slice index out of range: the runtime panics and the program ends
\* (no later key or message is processed).
Panicked(mm) == [mm EXCEPT !.state = "Panic"]

\* case Space
KeySpace(mm, cfg) ==
    IF mm.state = "LogFilter" /\ mm.parsedLogs.present /\ Len(mm.parsedLogs.steps) > 0
    THEN IF mm.logFilterIndex >= Len(mm.parsedLogs.steps)
         THEN Ret(Panicked(mm), cfg, NoCmd)
         ELSE Ret([mm EXCEPT !.logFilterStepNumbers =
                      toggleStepFilter(@, At(mm.parsedLogs.steps, mm.logFilterIndex).number)],
                  cfg, NoCmd)
    ELSE IF mm.state = "MultiJobSelect" /\ Len(mm.jobs) > 0
    THEN Ret([mm EXCEPT !.multiJobIDs =
                 toggleMultiJobSelection(@, At(mm.jobs, mm.multiJobSelectIdx).id)],
             cfg, NoCmd)
    ELSE Ret(mm, cfg, NoCmd)

\* case LogMulti
KeyLogMulti(mm, cfg) ==
    IF mm.state \in {"Ready", "LogViewer"} /\ Len(mm.jobs) > 1
    THEN Ret([mm EXCEPT !.multiJobSelectIdx = 0, !.state = "MultiJobSelect"], cfg, NoCmd)
    ELSE IF mm.state = "MultiJobSelect" THEN ApplyMultiJobSelection(mm, cfg)
    ELSE Ret(mm, cfg, NoCmd)

\* case LogViewToggle
KeyLogViewToggle(mm, cfg) ==
    IF mm.state = "LogViewer" /\ mm.multiJobMode
    THEN LET m1 == [mm EXCEPT !.multiJobViewSplit = ~@]
         IN  Ret([m1 EXCEPT !.logContent = buildMultiJobContent(m1)], cfg, NoCmd)
    ELSE Ret(mm, cfg, NoCmd)

\* case LogFilter
KeyLogFilter(mm, cfg) ==
    IF mm.state = "LogViewer" /\ mm.logJobID # 0
    THEN LET m1 == [mm EXCEPT !.logFilterIndex = 0, !.state = "Loading"]
         IN  Ret(m1, cfg, fetchLogsStructured(m1, cfg, mm.logJobID))
    ELSE IF mm.state = "LogFilter"
    THEN Ret([applyLogFilter(mm) EXCEPT !.state = "LogViewer"], cfg, NoCmd)
    ELSE Ret(mm, cfg, NoCmd)

\* case LogCompare
KeyLogCompare(mm, cfg) ==
    IF mm.state = "Ready" /\ Len(mm.runs) >= 2
    THEN Ret([mm EXCEPT !.compareCursor = 0, !.compareSelectStep = 0,
                        !.compareRunIdx1 = -1, !.compareRunIdx2 = -1,
                        !.state = "CompareSelect"], cfg, NoCmd)
    ELSE IF mm.state = "CompareSelect" THEN PickCompareRun(mm, cfg)
    ELSE IF mm.state = "CompareView" THEN Ret([mm EXCEPT !.state = "Ready"], cfg, NoCmd)
    ELSE Ret(mm, cfg, NoCmd)

\* case Quit: return m, tea.Quit
KeyQuit(mm, cfg) == Ret(mm, cfg, Quit)

\* Model.handleKey (Update's case tea.KeyMsg)
handleKey(mm, cfg, k) ==
    IF mm.searchInputMode THEN SearchInput(mm, cfg, k)
    ELSE IF mm.state = "Help" /\ KeyCase(k) # "Quit"
    THEN Ret([mm EXCEPT !.state = "Ready"], cfg, NoCmd)
    ELSE CASE KeyCase(k) = "Quit" -> KeyQuit(mm, cfg)
           [] KeyCase(k) = "Refresh" -> KeyRefresh(mm, cfg)
           [] KeyCase(k) = "Watch" -> KeyWatch(mm, cfg)
           [] KeyCase(k) = "Up" -> KeyUp(mm, cfg)
           [] KeyCase(k) = "Down" -> KeyDown(mm, cfg)
           [] KeyCase(k) = "Enter" -> KeyEnter(mm, cfg)
           [] KeyCase(k) = "Logs" -> KeyLogs(mm, cfg)
           [] KeyCase(k) = "NextMatch" -> KeyNextMatch(mm, cfg)
           [] KeyCase(k) = "PrevMatch" -> KeyPrevMatch(mm, cfg)
           [] KeyCase(k) = "Search" -> KeySearch(mm, cfg)
           [] KeyCase(k) = "NextRun" -> KeyNextRun(mm, cfg)
           [] KeyCase(k) = "PrevRun" -> KeyPrevRun(mm, cfg)
           [] KeyCase(k) = "Filter" -> KeyFilter(mm, cfg)
           [] KeyCase(k) = "Help" -> KeyHelp(mm, cfg)
           [] KeyCase(k) = "Escape" -> KeyEscape(mm, cfg)
           [] KeyCase(k) = "Space" -> KeySpace(mm, cfg)
           [] KeyCase(k) = "LogMulti" -> KeyLogMulti(mm, cfg)
           [] KeyCase(k) = "LogViewToggle" -> KeyLogViewToggle(mm, cfg)
           [] KeyCase(k) = "LogCompare" -> KeyLogCompare(mm, cfg)
           [] KeyCase(k) = "LogFilter" -> KeyLogFilter(mm, cfg)
           [] OTHER -> Ret(mm, cfg, NoCmd)

\* ---------------------------------------------------- command execution
\* The message a command leaves; `used` records the config it read.
Msg(kind, c, cfg) == [Item(kind, "msg") EXCEPT !.issued = c.issued, !.used = CfgOf(cfg)]

ErrMsg(c, cfg, text) == [Msg("ErrMsg", c, cfg) EXCEPT !.err = text]

RECURSIVE SnapRuns(_, _)
SnapRuns(rem, ids) ==
    IF ids = <<>> THEN <<>> ELSE <<RunSnap(rem, Head(ids))>> \o SnapRuns(rem, Tail(ids))

RECURSIVE SnapJobs(_, _)
SnapJobs(rem, ids) ==
    IF ids = <<>> THEN <<>> ELSE <<JobSnap(rem, Head(ids))>> \o SnapJobs(rem, Tail(ids))

\* The runs of the repositories in `oks`, each tagged with its repository
\* (gh.SourcedRun), as a set.
SourcedOf(rem, oks) ==
    UNION {{[repo |-> repo, run |-> RunSnap(rem, FirstPage(RepoRunIds(repo), 5)[i])] :
               i \in 1..Len(FirstPage(RepoRunIds(repo), 5))} : repo \in oks}

\* The runs in the order of their ids: no sort by time.
RECURSIVE SortByUpdatedDesc_ById(_)
SortByUpdatedDesc_ById(S) ==
    IF S = {} THEN <<>>
    ELSE LET top == CHOOSE x \in S : \A y \in S : x.run.id <= y.run.id
         IN  <<top>> \o SortByUpdatedDesc_ById(S \ {top})

\* sort.Slice(allRuns, UpdatedAt descending)
RECURSIVE SortByUpdatedDesc(_)
SortByUpdatedDesc(S) ==
    IF S = {} THEN <<>>
    ELSE LET top == CHOOSE x \in S : \A y \in S : UpdatedAt(x.run.id) >= UpdatedAt(y.run.id)
         IN  <<top>> \o SortByUpdatedDesc(S \ {top})

\* The closure of fetchWorkflowRuns, run against the remote: it reads Owner,
\* Repo and Branch through the config pointer when it executes.
ExecFetchWorkflowRuns(c, cfg, rem, ok) ==
    LET all == SnapRuns(rem, RepoRunIds(cfg.repo))
        runs == FirstPage(SelectSeq(all, LAMBDA run : HasStatus(run, c.filter)), 10)
    IN  IF ~ok \/ runs = <<>> THEN ErrMsg(c, cfg, IF ok THEN "no workflow runs found" ELSE "fetch failed")
        ELSE [Msg("RunsLoadedMsg", c, cfg) EXCEPT !.runs = runs]

\* An aggregation that fails as soon as one source fails.
ExecFetchMultiRepoRuns_FailOnAnyError(c, cfg, rem, oks) ==
    LET all == SortByUpdatedDesc(SourcedOf(rem, oks))
    IN  IF oks # {cfg.repositories[i] : i \in 1..Len(cfg.repositories)}
        THEN [ErrMsg(c, cfg, "fetch failed") EXCEPT !.oks = oks]
        ELSE IF Len(all) = 0
        THEN [ErrMsg(c, cfg, "no workflow runs found across repositories")
                 EXCEPT !.oks = oks]
        ELSE [Msg("MultiRepoRunsLoadedMsg", c, cfg) EXCEPT !.sruns = all, !.oks = oks]

\* The closure of fetchMultiRepoRuns; `oks` are the repositories whose fetch
\* succeeds, the others are skipped.
ExecFetchMultiRepoRuns(c, cfg, rem, oks) ==
    LET all == SortByUpdatedDesc(SourcedOf(rem, oks))
    IN  IF Len(all) = 0
        THEN [ErrMsg(c, cfg, "no workflow runs found across repositories")
                 EXCEPT !.oks = oks]
        ELSE [Msg("MultiRepoRunsLoadedMsg", c, cfg) EXCEPT !.sruns = all, !.oks = oks]

\* The closure of fetchJobs: the run is the one of its model copy, the
\* repository the one the config holds when it executes.
ExecFetchJobs(c, cfg, rem, ok) ==
    IF c.run = 0 THEN Msg("JobsLoadedMsg", c, cfg)
    ELSE IF ~ok \/ RepoOfRun(c.run) # cfg.repo THEN ErrMsg(c, cfg, "fetch failed")
    ELSE [Msg("JobsLoadedMsg", c, cfg) EXCEPT !.jobs = SnapJobs(rem, JobIdsOf(c.run))]

ExecFetchJobDetails(c, cfg, rem, ok) ==
    IF ~ok \/ RepoOfRun(RunOfJob(c.job)) # cfg.repo THEN ErrMsg(c, cfg, "fetch failed")
    ELSE [Msg("JobDetailsLoadedMsg", c, cfg) EXCEPT !.jobs = <<JobSnap(rem, c.job)>>]

ExecFetchLogs(c, cfg, rem, ok) ==
    IF ~ok \/ RepoOfRun(RunOfJob(c.job)) # cfg.repo THEN ErrMsg(c, cfg, "fetch failed")
    ELSE [Msg("LogLoadedMsg", c, cfg) EXCEPT !.content = LogText(rem, c.job)]

\* updateLogs: a failed fetch returns the content of the model copy.
ExecUpdateLogs(c, cfg, rem, ok) ==
    IF ~ok \/ RepoOfRun(RunOfJob(c.job)) # cfg.repo
    THEN [Msg("LogUpdatedMsg", c, cfg) EXCEPT !.content = c.content]
    ELSE [Msg("LogUpdatedMsg", c, cfg) EXCEPT !.content = LogText(rem, c.job)]

\* A multi-job fetch that gives up at the first job whose fetch fails.
ExecFetchMultiJobLogs_FailFast(c, cfg, rem, oks) ==
    IF \E i \in 1..Len(c.ids) : c.ids[i] \notin oks
    THEN ErrMsg(c, cfg, "fetch failed")
    ELSE [Msg("MultiJobLogsLoadedMsg", c, cfg) EXCEPT !.contents =
             [j \in {c.ids[i] : i \in 1..Len(c.ids)} |-> LogText(rem, j)]]

\* The closure of fetchMultiJobLogs: one entry per job of its selection,
\* the log or the error string; `oks` are the jobs whose fetch succeeds.
ExecFetchMultiJobLogs(c, cfg, rem, oks) ==
    [Msg("MultiJobLogsLoadedMsg", c, cfg) EXCEPT !.contents =
        [j \in {c.ids[i] : i \in 1..Len(c.ids)} |->
            IF j \in oks /\ RepoOfRun(RunOfJob(j)) = cfg.repo
            THEN LogText(rem, j) ELSE ErrorLog(j)]]

\* The closure of fetchComparisonLogs.  `oks` are the remote calls that
\* succeed: "jobs1", "jobs2" (FetchJobs of each run), "logs1", "logs2"
\* (FetchJobLogs of each run's first job).  A failed or empty job list on
\* either side ends the command with an ErrMsg; a failed log fetch puts the
\* error string in place of that side's log.
ExecFetchComparisonLogs(c, cfg, rem, oks) ==
    IF c.idx1 < 0 \/ c.idx2 < 0 \/ c.idx1 >= Len(c.runs) \/ c.idx2 >= Len(c.runs)
    THEN ErrMsg(c, cfg, "invalid run selection for comparison")
    ELSE LET run1 == At(c.runs, c.idx1)
             run2 == At(c.runs, c.idx2)
             jobs1 == IF "jobs1" \in oks /\ RepoOfRun(run1.id) = cfg.repo
                      THEN JobIdsOf(run1.id) ELSE <<>>
             jobs2 == IF "jobs2" \in oks /\ RepoOfRun(run2.id) = cfg.repo
                      THEN JobIdsOf(run2.id) ELSE <<>>
         IN  IF Len(jobs1) = 0 THEN ErrMsg(c, cfg, "failed to fetch jobs for run 1")
             ELSE IF Len(jobs2) = 0 THEN ErrMsg(c, cfg, "failed to fetch jobs for run 2")
             ELSE [Msg("CompareLogsLoadedMsg", c, cfg) EXCEPT
                      !.logs1 = IF "logs1" \in oks THEN LogText(rem, jobs1[1])
                                ELSE ErrorLog(jobs1[1]),
                      !.logs2 = IF "logs2" \in oks THEN LogText(rem, jobs2[1])
                                ELSE ErrorLog(jobs2[1])]

\* The closure of fetchLogsStructured; `entries` are the archive's entries
\* as sorted.
ExecFetchLogsStructured(c, cfg, rem, ok, entries) ==
    IF ~ok \/ RepoOfRun(RunOfJob(c.job)) # cfg.repo THEN ErrMsg(c, cfg, "fetch failed")
    ELSE [Msg("ParsedLogsLoadedMsg", c, cfg) EXCEPT !.logs = ParsedLogs(entries)]

Exec(c, cfg, rem, ok, oks) ==
    CASE c.kind = "Quit" -> QuitMsg
      [] c.kind = "fetchWorkflowRuns" -> ExecFetchWorkflowRuns(c, cfg, rem, ok)
      [] c.kind = "fetchMultiRepoRuns" -> ExecFetchMultiRepoRuns(c, cfg, rem, oks)
      [] c.kind = "fetchJobs" -> ExecFetchJobs(c, cfg, rem, ok)
      [] c.kind = "fetchJobDetails" -> ExecFetchJobDetails(c, cfg, rem, ok)
      [] c.kind = "fetchLogs" -> ExecFetchLogs(c, cfg, rem, ok)
      [] c.kind = "updateLogs" -> ExecUpdateLogs(c, cfg, rem, ok)
      [] c.kind = "fetchMultiJobLogs" -> ExecFetchMultiJobLogs(c, cfg, rem, oks)
      [] c.kind = "fetchComparisonLogs" -> ExecFetchComparisonLogs(c, cfg, rem, oks)
      [] c.kind = "fetchLogsStructured" -> ExecFetchLogsStructured(c, cfg, rem, ok, oks)

\* ------------------------------------------------------------ the system
\* NewModel
NewModel(multi, watch) ==
    [state |-> "Loading", runs |-> <<>>, run |-> NoRun, jobs |-> <<>>, branches |-> <<>>,
     selectedRunIndex |-> 0, selectedBranchIndex |-> 0, cursor |-> 0,
     showingJobDetails |-> FALSE, selectedJob |-> NoJob,
     showingLogs |-> FALSE, logContent |-> <<>>, logJobID |-> 0, logStreaming |-> FALSE,
     multiRepoMode |-> multi, sourcedRuns |-> <<>>, selectedSourcedRun |-> 0,
     watching |-> watch, notificationSent |-> FALSE, err |-> "", exitCode |-> 0,
     multiJobMode |-> FALSE, multiJobIDs |-> <<>>, multiJobContents |-> <<>>,
     multiJobSelectIdx |-> 0,
     compareRunIdx1 |-> 0, compareRunIdx2 |-> 0, compareSelectStep |-> 0,
     compareCursor |-> 0, compareLogs1 |-> <<>>, compareLogs2 |-> <<>>,
     compareDiff |-> <<>>, compareScrollOff |-> 0,
     parsedLogs |-> NoParsedLogs, logFilterStepNumbers |-> <<>>, logFilterIndex |-> 0,
     logScrollOffset |-> 0, height |-> 0,
     currentStatusFilter |-> "", selectedFilterIndex |-> 0,
     multiJobViewSplit |-> FALSE,
     logSearchTerm |-> <<>>, logSearchMatches |-> <<>>, logSearchIndex |-> 0,
     searchInputMode |-> FALSE, searchInputBuffer |-> <<>>]

\* The config main hands to NewModel: a resolved repository in
\* single-repository mode, none in multi-repository mode.
NewConfig(multi) ==
    [repo |-> IF multi THEN "" ELSE "A", branch |-> "main",
     repositories |-> IF multi THEN Repositories ELSE <<>>]

\* Model.Init
InitCmd(mm, cfg) == IF mm.multiRepoMode THEN fetchMultiRepoRuns(mm, cfg) ELSE fetchWorkflowRuns(mm, cfg)

\* The event of the last Update step: "key" or the kind of the message, the
\* timer behind a TickMsg, and the run notified in the step (0: none).
Event(ev, src, notify) == [ev |-> ev, src |-> src, notify |-> notify]

Put(bag, cmd) == IF cmd = NoCmd THEN bag ELSE bag (+) SetToBag({cmd})

InitWith(multi, watch) ==
    /\ m = NewModel(multi, watch)
    /\ config = NewConfig(multi)
    /\ inflight = SetToBag({InitCmd(NewModel(multi, watch), NewConfig(multi))})
    /\ remote = [j \in LiveJobs |-> StatusQueued]
    /\ notified = {}
    /\ last = Event("start", "", 0)
    /\ call = NoCall

\* Single-repository mode, started with or without --watch.
Init == \E watch \in BOOLEAN : InitWith(FALSE, watch)

\* Multi-repository mode.
InitMulti == \E watch \in BOOLEAN : InitWith(TRUE, watch)

\* A session on the repository `repo` (single-repository mode).
InitOn(repo, watch) ==
    /\ m = NewModel(FALSE, watch)
    /\ config = [NewConfig(FALSE) EXCEPT !.repo = repo]
    /\ inflight = SetToBag({InitCmd(NewModel(FALSE, watch),
                                     [NewConfig(FALSE) EXCEPT !.repo = repo])})
    /\ remote = [j \in LiveJobs |-> StatusQueued]
    /\ notified = {}
    /\ last = Event("start", "", 0)
    /\ call = NoCall

\* A repository without workflow runs (RepoRunIds gives it none).
EmptyRepo == "E"

InitEmpty == \E watch \in BOOLEAN : InitOn(EmptyRepo, watch)

\* One Update step on a key press.
Key(k) ==
    LET r == handleKey(m, config, k)
    IN  /\ m.state # "Panic"
        /\ r.cmd # NoCmd => BagCardinality(inflight) < MaxInFlight
        /\ Len(r.m.searchInputBuffer) <= MaxTerm
        /\ m' = r.m
        /\ config' = r.cfg
        /\ inflight' = Put(inflight, r.cmd)
        /\ last' = Event("key", "", 0)
        /\ UNCHANGED <<remote, notified, call>>

\* The messages a command may leave when it executes now: each remote call
\* succeeds or fails.
Outcomes(c, cfg, rem) ==
    IF c.kind = "fetchMultiRepoRuns"
    THEN {Exec(c, cfg, rem, TRUE, oks) :
             oks \in SUBSET {cfg.repositories[i] : i \in 1..Len(cfg.repositories)}}
    ELSE IF c.kind = "fetchMultiJobLogs"
    THEN {Exec(c, cfg, rem, TRUE, oks) : oks \in SUBSET {c.ids[i] : i \in 1..Len(c.ids)}}
    ELSE IF c.kind = "fetchLogsStructured"
    THEN {Exec(c, cfg, rem, FALSE, <<>>)}
         \cup {Exec(c, cfg, rem, TRUE, entries) :
                  entries \in UNION {SortedEntries(a) : a \in Archives}}
    ELSE IF c.kind = "fetchComparisonLogs"
    THEN {Exec(c, cfg, rem, TRUE, oks) : oks \in SUBSET {"jobs1", "jobs2", "logs1", "logs2"}}
    ELSE {Exec(c, cfg, rem, ok, {}) : ok \in BOOLEAN}

\* A command executes in its goroutine and leaves its message.
Execute(c) ==
    /\ c.phase = "cmd"
    /\ \E msg \in Outcomes(c, config, remote) :
          inflight' = (inflight (-) SetToBag({c})) (+) SetToBag({msg})
    /\ UNCHANGED <<m, config, remote, notified, last, call>>

\* One Update step on a completion message or a tick.
Deliver(msg) ==
    LET r == Update(m, config, msg)
    IN  /\ msg.phase = "msg"
        /\ msg # QuitMsg
        /\ m.state # "Panic"
        /\ m' = r.m
        /\ config' = r.cfg
        /\ inflight' = Put(inflight (-) SetToBag({msg}), r.cmd)
        /\ notified' = IF r.notify = 0 THEN notified ELSE notified \cup {r.notify}
        /\ last' = Event(msg.kind, msg.src, r.notify)
        /\ UNCHANGED <<remote, call>>

\* The remote advances a job: queued -> in_progress -> completed.
RemoteStep(j) ==
    /\ remote[j] # StatusCompleted
    /\ remote' = [remote EXCEPT ![j] =
                     IF @ = StatusQueued THEN StatusInProgress ELSE StatusCompleted]
    /\ UNCHANGED <<m, config, inflight, notified, last, call>>

\* The dynamic type of the tea.Model the program holds: Update returns the
\* Model value it received, except for a key press, where it returns what
\* handleKey (pointer receiver) returns, a *Model.
ModelType == IF last.ev = "key" THEN "*Model" ELSE "Model"

\* The event loop receives tea.QuitMsg: Update is not called, p.Run returns
\* the model held, and nothing pending is processed any more.  `last`
\* keeps the type of that final model in its src field.
Exits(msg) ==
    /\ msg = QuitMsg
    /\ last.ev # "QuitMsg"
    /\ last' = Event("QuitMsg", ModelType, 0)
    /\ inflight' = EmptyBag
    /\ UNCHANGED <<m, config, remote, notified, call>>

\* main.run after p.Run: the process exit code.
ExitStatus == IF last.src = "Model" THEN m.exitCode ELSE 0

\* One step of the system when the user presses only the keys of K.
Step(K) ==
    \/ \E k \in K : Key(k)
    \/ \E c \in BagToSet(inflight) : Execute(c)
    \/ \E msg \in BagToSet(inflight) : Deliver(msg)
    \/ \E j \in LiveJobs : RemoteStep(j)

\* The keys of each area of the interface.  Every specification runs the
\* same handlers, commands and remote; it differs in the keys the user
\* presses ("b", BranchSelect, stands for every key without a case).
KeysWatch == {"r", "w", "right", "left", "b"}
KeysRuns == {"r", "right", "left", "?"}
KeysDetails == {"r", "enter", "up", "down"}
KeysLogs == {"r", "w", "l", "?"}

Next == Step(KeysWatch)

\* Watch mode, refresh and run navigation.
Spec == Init /\ [][Next]_vars

\* Run navigation.
SpecRuns == Init /\ [][Step(KeysRuns)]_vars

\* Job details.
SpecDetails == Init /\ [][Step(KeysDetails)]_vars

\* The log viewer and watch mode.
SpecLogs == Init /\ [][Step(KeysLogs)]_vars

\* Multi-repository mode: selecting runs of several sources.
SpecMulti == InitMulti /\ [][Step(KeysDetails)]_vars

\* A session the user can quit.
StepQuit(K) ==
    \/ last.ev # "QuitMsg" /\ Step(K)
    \/ \E msg \in BagToSet(inflight) : Exits(msg)

KeysQuit == {"q", "r", "right", "left"}

SpecQuit == Init /\ [][StepQuit(KeysQuit)]_vars

\* Run navigation on repository "A" (a run in progress, then success, and a
\* failure) or "C" (the other conclusions).
InitConclusions == \E watch \in BOOLEAN, repo \in {"A", "C"} : InitOn(repo, watch)

KeysConclusions == {"right", "r"}

SpecConclusions == InitConclusions /\ [][Step(KeysConclusions)]_vars

\* Run navigation and the job cursor.
KeysCursor == {"right", "left", "down", "up"}

SpecCursor == Init /\ [][Step(KeysCursor)]_vars

\* A repository without runs: refresh, watch and help.
KeysEmpty == {"r", "w", "?"}

SpecEmpty == InitEmpty /\ [][Step(KeysEmpty)]_vars

\* ================================================================ claims
Pending == BagToSet(inflight)

\* Number of pending ticks of one timer.
Ticks(bag, src) == CopiesIn(Tick(src), bag)

\* The step from the current state to the next one is Update on msg.
Delivers(msg) == msg.phase = "msg" /\ Deliver(msg)

\* The command the Update step on msg issues.
Issued(msg) == Update(m, config, msg).cmd

\* ---- C1: once no job fetch is in flight (and none has failed), the loaded
\* job list is the one fetched for the selected run; a late completion for
\* a previously selected run does not overwrite it.
JobFetchPending == \E it \in Pending : it.kind \in {"fetchJobs", "JobsLoadedMsg", "ErrMsg"}

C1_JobsOfSelectedRun ==
    (m.err = "" /\ ~JobFetchPending /\ m.run # NoRun /\ m.jobs # <<>>)
        => \A i \in 1..Len(m.jobs) : m.jobs[i].run = m.run.id

\* ---- C2: a job-details completion that arrives after the user left the
\* details flow changes neither the screen state nor the selected job.
C2_StaleDetailsIgnored ==
    [][\A msg \in Pending :
          (Delivers(msg) /\ msg.kind = "JobDetailsLoadedMsg" /\ ~m.showingJobDetails)
              => (m'.state = m.state /\ m'.selectedJob = m.selectedJob)]_vars

\* ---- C3: the owner, repository and branch a command uses are those the
\* session held when the command was issued.
C3_CommandUsesIssuedConfig == \A it \in Pending : it.used = it.issued

\* ---- C4: processing the log-loaded message for a job that the loaded job
\* list reports as in_progress or queued sets the streaming flag and
\* schedules a log-refresh tick.
ViewedJobIs(mm, statuses) ==
    \E i \in 1..Len(mm.jobs) : mm.jobs[i].id = mm.logJobID /\ mm.jobs[i].status \in statuses

C4_RunningJobStartsStreaming ==
    [][\A msg \in Pending :
          (Delivers(msg) /\ msg.kind = "LogLoadedMsg"
              /\ ViewedJobIs(m, {StatusInProgress, StatusQueued}))
              => (m'.logStreaming /\ Ticks(inflight', "log") = Ticks(inflight, "log") + 1)]_vars

C6_StaleTickIgnored ==
    [][\A msg \in Pending :
          (Delivers(msg)
              /\ \/ msg = Tick("log") /\ ~(m.state = "LogViewer" /\ m.logStreaming)
                 \/ msg = Tick("poll") /\ ~m.watching)
              => (m' = m /\ Issued(msg) = NoCmd)]_vars

\* ---- C7: while the watch flag is set, a poll tick is scheduled or a runs
\* or jobs fetch is in flight (a fetch is in flight until Update has
\* consumed its message, an error message included).
PollAlive ==
    \/ Ticks(inflight, "poll") > 0
    \/ \E it \in Pending : it.kind \in {"fetchWorkflowRuns", "fetchMultiRepoRuns", "fetchJobs",
                                        "RunsLoadedMsg", "MultiRepoRunsLoadedMsg",
                                        "JobsLoadedMsg", "ErrMsg"}

C7_WatchKeepsPolling == m.watching => PollAlive

\* ---- C8: a jobs-loaded message processed while watch is active ends the
\* watch session if the active run is completed (flag cleared, state Ready,
\* no poll tick scheduled), and otherwise leaves the state Watching with
\* exactly one more poll tick scheduled.
C8_CompletionEndsWatch ==
    [][\A msg \in Pending :
          (Delivers(msg) /\ msg.kind = "JobsLoadedMsg" /\ m.watching)
              => IF IsCompleted(m.run)
                 THEN /\ ~m'.watching
                      /\ m'.state = "Ready"
                      /\ Ticks(inflight', "poll") = Ticks(inflight, "poll")
                 ELSE /\ m'.watching
                      /\ m'.state = "Watching"
                      /\ Ticks(inflight', "poll") = Ticks(inflight, "poll") + 1]_vars

\* The completion of the watched run has just been processed.
C8_Witness ==
    /\ last.ev = "JobsLoadedMsg" /\ last.notify # 0
    /\ ~m.watching /\ m.state = "Ready"

C10_ErrorStored ==
    /\ [](m.state = "Error" => m.err # "")
    /\ [][\A msg \in Pending :
            (Delivers(msg) /\ msg.kind = "ErrMsg")
                => (m'.state = "Error" /\ m'.err = msg.err /\ m'.err # "" /\ m'.exitCode = 2)]_vars

C10_Witness == m.state = "Error" /\ last.ev = "ErrMsg" /\ m.err # "" /\ m.exitCode = 2

\* ---- C11: when a runs fetch succeeds with an empty result set, the step
\* that processes its completion leaves the session in Ready with no active
\* run, not in Error.
EmptyRunsResult(msg) ==
    /\ msg.phase = "msg"
    /\ \E c \in {fetchWorkflowRuns(m, config)} :
          /\ SnapRuns(remote, RepoRunIds(msg.used[1])) = <<>>
          /\ msg = [ExecFetchWorkflowRuns(c, config, remote, TRUE) EXCEPT
                        !.issued = msg.issued, !.used = msg.used]

C11_EmptyResultIsReady ==
    [][\A msg \in Pending :
          (Delivers(msg) /\ EmptyRunsResult(msg))
              => (m'.state = "Ready" /\ m'.run = NoRun /\ m'.err = "")]_vars

\* ---- C12: when the session has been quit, the process exit code is the
\* exit code of the final session state, whatever event was processed last.
C12_ExitCodeOfFinalState == last.ev = "QuitMsg" => ExitStatus = m.exitCode

\* ---- C13: after a jobs-loaded step the exit code is 2 if no run is
\* resolved, 0 if the active run is still running or concluded success,
\* neutral or skipped, 1 if it concluded failure, cancelled or timed_out;
\* after an error message it is 2.
C13_ExitCodeFollowsRun ==
    [][\A msg \in Pending :
          /\ (Delivers(msg) /\ msg.kind = "JobsLoadedMsg") =>
                /\ m'.run = NoRun => m'.exitCode = 2
                /\ (m'.run # NoRun /\ ~IsCompleted(m'.run)) => m'.exitCode = 0
                /\ m'.run.conclusion \in {"success", "neutral", "skipped"} => m'.exitCode = 0
                /\ m'.run.conclusion \in {"failure", "cancelled", "timed_out"} => m'.exitCode = 1
          /\ (Delivers(msg) /\ msg.kind = "ErrMsg") => m'.exitCode = 2]_vars

\* The jobs of a run that timed out have just been loaded.
C13_Witness ==
    /\ last.ev = "JobsLoadedMsg"
    /\ m.run.conclusion = "timed_out" /\ m.exitCode = 1

\* ---- C14: every selection cursor stays within its collection, also after
\* the collection is replaced by one with fewer items (the part of the
\* claim about non-empty collections: an index in [0, len - 1]).
InRange(i, n) == n > 0 => (0 <= i /\ i < n)

C14_CursorsInRange ==
    /\ InRange(m.cursor, Len(m.jobs))
    /\ InRange(m.selectedRunIndex, Len(m.runs))
    /\ InRange(m.selectedSourcedRun, Len(m.sourcedRuns))
    /\ InRange(m.selectedBranchIndex, Len(m.branches))

\* ---- C15: from state Ready the branch-select key issues a branches fetch
\* (whose successful completion opens BranchSelection).
C15_BranchSelectFetches ==
    m.state = "Ready" => handleKey(m, config, "b").cmd.kind = "fetchBranches"

\* ---- C16: whenever the state is Ready, the job list is non-empty and the
\* job cursor is valid, Enter issues a job-detail fetch for the job under
\* the cursor; the successful completion of a job-detail fetch puts the
\* session in JobDetails; Enter in JobDetails returns to Ready with no
\* selected job.
C16_EnterOpensJobDetails ==
    /\ (m.state = "Ready" /\ Len(m.jobs) > 0 /\ m.cursor >= 0 /\ m.cursor < Len(m.jobs))
          => /\ handleKey(m, config, "enter").cmd.kind = "fetchJobDetails"
             /\ handleKey(m, config, "enter").cmd.job = At(m.jobs, m.cursor).id
    /\ \A msg \in Pending :
          msg.kind = "JobDetailsLoadedMsg" => Update(m, config, msg).m.state = "JobDetails"
    /\ m.state = "JobDetails"
          => /\ handleKey(m, config, "enter").m.state = "Ready"
             /\ handleKey(m, config, "enter").m.selectedJob = NoJob

\* ---- C17: in state Ready (no details or logs open) with more than one
\* run loaded, 'l' selects the next run when the selection is not on the
\* last one, resets the job cursor and issues a job fetch for that run; 'h'
\* does the same for the previous run.
SelectsRun(r, idx) ==
    /\ r.m.selectedRunIndex = idx
    /\ r.m.run = At(m.runs, idx)
    /\ r.m.cursor = 0
    /\ r.cmd.kind = "fetchJobs" /\ r.cmd.run = At(m.runs, idx).id

C17_RunNavigationKeys ==
    (m.state = "Ready" /\ ~m.showingJobDetails /\ ~m.showingLogs /\ Len(m.runs) > 1)
        => /\ m.selectedRunIndex < Len(m.runs) - 1
                 => SelectsRun(handleKey(m, config, "l"), m.selectedRunIndex + 1)
           /\ m.selectedRunIndex > 0
                 => SelectsRun(handleKey(m, config, "h"), m.selectedRunIndex - 1)

\* ------------------------------------------------------ retries, stepwise
\* The errors the REST client gives, and those any function may return.
RestErrors == {NewError(T) : T \in ErrorTexts}

FnErrors == RestErrors \cup {RetryableError({}, b) : b \in BOOLEAN}

\* How one call of fn ended, as the retry policy sees it.
Outcome(err) ==
    IF err = NoErr THEN "ok" ELSE IF IsRetryable(err) THEN "retryable" ELSE "fatal"

\* A call of RetryWithBackoff starts: by any caller with any MaxRetries up
\* to the default, or by Client.Get with DefaultRetryConfig.  No session.
InitRetry ==
    /\ m = NewModel(FALSE, FALSE)
    /\ config = NewConfig(FALSE)
    /\ inflight = EmptyBag
    /\ remote = [j \in LiveJobs |-> StatusQueued]
    /\ notified = {}
    /\ last = Event("start", "", 0)
    /\ \/ \E n \in 0..DefaultRetryConfig.MaxRetries : call = NewCall("fn", n)
       \/ call = NewCall("Get", DefaultRetryConfig.MaxRetries)

\* One call of fn and the rest of the loop iteration.  The function given
\* by Client.Get returns the REST error through wrapError.
Attempt(e) ==
    /\ call.via # ""
    /\ ~call.done
    /\ call.via = "Get" => e \in RestErrors \cup {NoErr}
    /\ LET err == IF call.via = "Get" THEN wrapError(e) ELSE e
       IN  call' = [RetryWithBackoff(call, err) EXCEPT
                       !.raw = e, !.hist = Append(call.hist, Outcome(err))]
    /\ UNCHANGED <<m, config, inflight, remote, notified, last>>

NextRetry == \E e \in FnErrors \cup {NoErr} : Attempt(e)

SpecRetry == InitRetry /\ [][NextRetry]_vars

AllRetryable(h, k) == \A i \in 1..k : h[i] = "retryable"

\* ---- C18: RetryWithBackoff never calls the function more than
\* maxRetries+1 times; after a first error that is not retryable it has
\* returned with one call; after k < maxRetries retryable errors and then a
\* success it has returned nil with k+1 calls; and while every call fails
\* with a retryable error it returns exactly at call maxRetries+1, with an
\* error that carries the retry count.
C18_RetryCallCount ==
    LET h == call.hist
        n == Len(call.hist)
    IN  /\ n <= call.maxRetries + 1
        /\ (n > 0 /\ h[1] = "fatal") => (n = 1 /\ call.done)
        /\ \A k \in 0..(call.maxRetries - 1) :
              (n > k /\ AllRetryable(h, k) /\ h[k + 1] = "ok")
                  => (n = k + 1 /\ call.done /\ call.result.ok)
        /\ (n > 0 /\ AllRetryable(h, n)) =>
              /\ call.done <=> n = call.maxRetries + 1
              /\ call.done => (~call.result.ok
                               /\ call.result.retries = call.maxRetries)

C18_Witness ==
    /\ call.via = "fn"
    /\ call.maxRetries = 3
    /\ call.done
    /\ call.hist = <<"retryable", "retryable", "ok">>

\* The class the status markers of a text call for, the rules taken in the
\* order Auth, RateLimit, NotFound, transient.
MarkerClass(T) ==
    IF Contains(T, "401") \/ (Contains(T, "403") /\ ~Contains(T, "rate limit"))
    THEN "AuthError"
    ELSE IF (Contains(T, "403") /\ Contains(T, "rate limit")) \/ Contains(T, "429")
    THEN "RateLimitError"
    ELSE IF Contains(T, "404")
    THEN "NotFoundError"
    ELSE IF \E p \in {"502", "503", "504", "timeout", "connection"} : Contains(T, p)
    THEN "transient"
    ELSE "unchanged"

\* An error that wrapError marked transient.
WillRetry(err) ==
    err.note \in {"server error (will retry)", "network error (will retry)"}

\* ---- C19: the error Client.Get hands to the retry loop is classified by
\* the status markers of the REST error's text, whatever markers the text
\* combines: Auth for 401 or 403 without "rate limit", RateLimit for 403
\* with "rate limit" or 429, NotFound for 404, an untyped "will retry"
\* error for 502/503/504/timeout/connection, and the REST error itself when
\* the text has none of the markers.
C19_ClassificationFollowsMarkers ==
    (call.via = "Get" /\ call.raw # NoErr) =>
        LET want == MarkerClass(call.raw.marks)
            got  == call.lastErr
        IN  /\ got.marks = call.raw.marks
            /\ want \in {"AuthError", "RateLimitError", "NotFoundError"}
                  => (got.class = want /\ ~WillRetry(got))
            /\ want = "transient" => (got.class = "" /\ WillRetry(got))
            /\ want = "unchanged" => got = call.raw

\* ---- C20: in Client.Get, after a call that failed, an error that
\* classification marked transient ("will retry") is retried unless this
\* was attempt maxRetries+1, and an error classified Auth or NotFound is
\* not retried: the call returns with it at once.
C20_ClassificationAndRetryAgree ==
    LET n == Len(call.hist)
    IN  (call.via = "Get" /\ n > 0 /\ call.hist[n] # "ok") =>
            /\ WillRetry(call.lastErr)
                  => (call.done <=> n = call.maxRetries + 1)
            /\ call.lastErr.class \in {"AuthError", "NotFoundError"}
                  => call.done

\* ------------------------------------------------------------ error hints
\* The phrases getErrorHint looks for that the Error() text of a typed
\* error adds in front of the text it wraps: "GitHub authentication
\* failed: ..." (AuthError), "resource not found: ..." (NotFoundError),
\* "GitHub API rate limited: ..." (RateLimitError), with wrapError's own
\* message.  "failed after N retries" adds none.
ErrorPhrases(err) ==
    CASE err.class = "AuthError" ->
            {"authentication"} \cup
            (IF err.note = "access forbidden" THEN {"forbidden"} ELSE {})
      [] err.class = "NotFoundError" -> {"not found"}
      [] err.class = "RateLimitError" ->
            {"rate limit"} \cup
            (IF err.note = "too many requests" THEN {"too many requests"} ELSE {})
      [] OTHER -> {}

\* strings.Contains(strings.ToLower(err.Error()), pat)
LowerContains(err, pat) ==
    \/ pat \in ErrorPhrases(err)
    \/ \E f \in err.marks : \E t \in Substrings(f) : ToLower(t) = pat

\* Model.getErrorHint on m.err = err: which suggestion is shown.
getErrorHint(err) ==
    IF err = NoErr THEN ""
    ELSE IF LowerContains(err, "authentication") \/ LowerContains(err, "401")
    THEN "auth"
    ELSE IF LowerContains(err, "403") \/ LowerContains(err, "forbidden")
    THEN "permissions"
    ELSE IF LowerContains(err, "not found") \/ LowerContains(err, "404")
    THEN "not found"
    ELSE IF \/ LowerContains(err, "rate limit")
            \/ LowerContains(err, "429")
            \/ LowerContains(err, "too many requests")
    THEN "rate limit"
    ELSE IF LowerContains(err, "timeout") \/ LowerContains(err, "connection")
    THEN "network"
    ELSE IF \/ LowerContains(err, "502")
            \/ LowerContains(err, "503")
            \/ LowerContains(err, "504")
    THEN "server"
    ELSE IF LowerContains(err, "no workflow runs")
    THEN "no runs"
    ELSE IF LowerContains(err, "detached head")
    THEN "detached"
    ELSE "generic"

\* ---- C21: when Client.Get has returned an error, the suggestion shown
\* for it matches its class: the authentication or the permission
\* suggestion for an Auth error, the not-found suggestion for NotFound, the
\* rate-limit suggestion for RateLimit, the network or the server
\* suggestion for an error marked transient, the generic suggestion for an
\* error that classification left unchanged.
C21_HintMatchesClass ==
    (call.via = "Get" /\ call.done /\ ~call.result.ok) =>
        LET e    == call.result.err
            hint == getErrorHint(call.result.err)
        IN  /\ e.class = "AuthError" => hint \in {"auth", "permissions"}
            /\ e.class = "NotFoundError" => hint = "not found"
            /\ e.class = "RateLimitError" => hint = "rate limit"
            /\ WillRetry(e) => hint \in {"network", "server"}
            /\ (e.class = "" /\ ~WillRetry(e)) => hint = "generic"

\* ------------------------------------------------ multi-source aggregation
\* The repository lists of the aggregation sessions: a source with more
\* runs than a page, sources without runs.
AggregateLists == {<<"A", "D">>, <<"B", "D">>, <<"E", "B">>, <<"E", "F">>}

InitAggregate ==
    \E repos \in AggregateLists :
        /\ m = NewModel(TRUE, FALSE)
        /\ config = [NewConfig(TRUE) EXCEPT !.repositories = repos]
        /\ inflight = SetToBag({InitCmd(NewModel(TRUE, FALSE),
                                        [NewConfig(TRUE) EXCEPT !.repositories = repos])})
        /\ remote = [j \in LiveJobs |-> StatusQueued]
        /\ notified = {}
        /\ last = Event("start", "", 0)
        /\ call = NoCall

KeysAggregate == {"r", "down", "up"}

SpecAggregate == InitAggregate /\ [][Step(KeysAggregate)]_vars

SortedDesc(s) ==
    \A i \in 1..Len(s) : \A j \in 1..Len(s) :
        i < j => UpdatedAt(s[i].run.id) >= UpdatedAt(s[j].run.id)

\* The entries of the aggregate s that carry the tag `repo`.
EntriesOf(s, repo) == {i \in 1..Len(s) : s[i].repo = repo}

\* ---- C22: every aggregate message pending holds, for each source whose
\* fetch succeeded, the runs of that source's first page (at most 5), each
\* once and tagged with that source, and nothing else, ordered by last
\* update descending across sources; and the aggregate list of the session
\* is ordered by last update descending.
C22_AggregateSortedAndTagged ==
    /\ SortedDesc(m.sourcedRuns)
    /\ \A msg \in BagToSet(inflight) :
          msg.kind = "MultiRepoRunsLoadedMsg" =>
              /\ SortedDesc(msg.sruns)
              /\ \A i \in 1..Len(msg.sruns) :
                    /\ msg.sruns[i].repo \in msg.oks
                    /\ RepoOfRun(msg.sruns[i].run.id) = msg.sruns[i].repo
                    /\ \A j \in 1..Len(msg.sruns) :
                          msg.sruns[i].run.id = msg.sruns[j].run.id => i = j
              /\ \A repo \in msg.oks :
                    /\ Cardinality(EntriesOf(msg.sruns, repo)) <= 5
                    /\ \A k \in 1..Len(RepoRunIds(repo)) :
                          k <= 5 => \E i \in EntriesOf(msg.sruns, repo) :
                                       msg.sruns[i].run.id = RepoRunIds(repo)[k]

\* The session has taken the aggregate of two sources whose runs
\* interleave, one of them cut to its page.
C22_Witness ==
    /\ last.ev = "MultiRepoRunsLoadedMsg"
    /\ Len(m.sourcedRuns) = 7
    /\ m.sourcedRuns[1].repo = "D"
    /\ m.sourcedRuns[2].repo = "A"

\* The step from the current state to the next one is the execution of c.
Executes(c) == c.phase = "cmd" /\ Execute(c)

\* The message that step left.
Left(msg) == CopiesIn(msg, inflight') > CopiesIn(msg, inflight)

\* Some source that was fetched has a run.
YieldsRuns(oks) == \E repo \in oks : RepoRunIds(repo) # <<>>

\* The aggregate fetch leaves the aggregate when a fetched source has a run,
\* whatever sources failed, and otherwise an error with this text, which
\* puts the session in Error.
AggregationReports(text) ==
    \A c \in Pending :
        (c.kind = "fetchMultiRepoRuns" /\ Executes(c)) =>
            \A msg \in BagToSet(inflight') :
                Left(msg) =>
                    /\ YieldsRuns(msg.oks) =>
                          /\ msg.kind = "MultiRepoRunsLoadedMsg"
                          /\ \A i \in 1..Len(msg.sruns) : msg.sruns[i].repo \in msg.oks
                    /\ ~YieldsRuns(msg.oks) =>
                          /\ msg.kind = "ErrMsg"
                          /\ msg.err = text
                          /\ Update(m', config', msg).m.state = "Error"
                          /\ Update(m', config', msg).m.err = text

\* ---- C23 (as stated): in the aggregate fetch a source that fails is
\* skipped and the aggregate is delivered when some fetched source has a
\* run; only when no run was fetched at all is the error "no runs found
\* across repositories" reported, and the session goes to Error.
C23_AggregateError_AsStated ==
    [][AggregationReports("no runs found across repositories")]_vars

\* ---- C23 (amended): the same, the error reported being "no workflow runs
\* found across repositories".
C23_AggregateError ==
    [][AggregationReports("no workflow runs found across repositories")]_vars

\* A source without runs was fetched, the other source failed, and the
\* error is pending.
C23_Witness ==
    /\ config.repositories = <<"E", "B">>
    /\ \E msg \in Pending :
          /\ msg.kind = "ErrMsg"
          /\ msg.oks = {"E"}
          /\ msg.err = "no workflow runs found across repositories"

\* ---------------------------------------------------- multi-job selection
\* The session on the repository whose run has five jobs, once its runs
\* and jobs are loaded and the user has opened the selection screen: what
\* Update makes of the start-up messages and of the key "m".
SelectConfig == [NewConfig(FALSE) EXCEPT !.repo = "G"]

SelectRemote == [j \in LiveJobs |-> StatusQueued]

SelectRunsLoaded ==
    Update(NewModel(FALSE, FALSE), SelectConfig,
           ExecFetchWorkflowRuns(fetchWorkflowRuns(NewModel(FALSE, FALSE), SelectConfig),
                                 SelectConfig, SelectRemote, TRUE))

SelectJobsLoaded ==
    Update(SelectRunsLoaded.m, SelectConfig,
           ExecFetchJobs(SelectRunsLoaded.cmd, SelectConfig, SelectRemote, TRUE))

InitToggle ==
    /\ m = handleKey(SelectJobsLoaded.m, SelectConfig, "m").m
    /\ config = SelectConfig
    /\ inflight = EmptyBag
    /\ remote = SelectRemote
    /\ notified = {}
    /\ last = Event("key", "", 0)
    /\ call = NoCall

\* The user toggles jobs and applies the selection.
KeysToggle == {" ", "down", "enter"}

SpecToggle == InitToggle /\ [][Step(KeysToggle)]_vars

Range(s) == {s[i] : i \in 1..Len(s)}

NoDuplicates(s) == \A i \in 1..Len(s) : \A j \in 1..Len(s) : s[i] = s[j] => i = j

\* The selection after one more press of the toggle key.
AfterToggle(mm) == handleKey(mm, config, " ").m

\* ---- C25: applying a non-empty multi-job selection issues the multi-job
\* fetch, which never leaves an error message (so never leads to the Error
\* state): it leaves a multi-job-logs message with exactly one entry per
\* selected job, the job's log or the error string of its failed fetch,
\* and processing that message opens the log viewer.
C25_MultiJobLogsNeverFail ==
    /\ [](m.state = "MultiJobSelect" /\ Len(m.multiJobIDs) > 0
            => handleKey(m, config, "enter").cmd.kind = "fetchMultiJobLogs")
    /\ [][\A c \in Pending :
            (c.kind = "fetchMultiJobLogs" /\ Executes(c)) =>
                \A msg \in BagToSet(inflight') :
                    Left(msg) =>
                        /\ msg.kind = "MultiJobLogsLoadedMsg"
                        /\ DOMAIN msg.contents = Range(c.ids)
                        /\ DOMAIN msg.contents = Range(m.multiJobIDs)
                        /\ \A j \in DOMAIN msg.contents :
                              msg.contents[j] \in {LogText(remote, j), ErrorLog(j)}]_vars
    /\ [][\A msg \in Pending :
            (Delivers(msg) /\ msg.kind = "MultiJobLogsLoadedMsg")
                => (m'.state = "LogViewer" /\ m'.multiJobContents = msg.contents)]_vars

\* The log viewer is open on a selection of two jobs whose fetches both
\* failed.
C25_Witness ==
    /\ m.state = "LogViewer"
    /\ last.ev = "MultiJobLogsLoadedMsg"
    /\ Len(m.multiJobIDs) = 2
    /\ DOMAIN m.multiJobContents = Range(m.multiJobIDs)
    /\ \A j \in DOMAIN m.multiJobContents : m.multiJobContents[j] = ErrorLog(j)

\* ---- C26: the multi-job selection never holds a job id twice nor more
\* than 4 ids; in the selection screen the toggle key removes the job under
\* the cursor when it is selected, adds it when it is not and fewer than 4
\* are selected (a second press removes it again), and changes nothing when
\* it is not selected and 4 are.
C26_SelectionBounded ==
    /\ NoDuplicates(m.multiJobIDs)
    /\ Len(m.multiJobIDs) <= 4
    /\ (m.state = "MultiJobSelect" /\ Len(m.jobs) > 0) =>
          LET ids   == m.multiJobIDs
              job   == At(m.jobs, m.multiJobSelectIdx).id
              after == AfterToggle(m).multiJobIDs
              twice == AfterToggle(AfterToggle(m)).multiJobIDs
          IN  /\ job \in Range(ids) =>
                    (Range(after) = Range(ids) \ {job} /\ Len(after) = Len(ids) - 1)
              /\ (job \notin Range(ids) /\ Len(ids) < 4) =>
                    (after = Append(ids, job) /\ twice = ids)
              /\ (job \notin Range(ids) /\ Len(ids) = 4) => after = ids

\* Four jobs are selected and the cursor is on the fifth.
C26_Witness ==
    /\ m.state = "MultiJobSelect"
    /\ last.ev = "key"
    /\ Len(m.multiJobIDs) = 4
    /\ At(m.jobs, m.multiJobSelectIdx).id \notin Range(m.multiJobIDs)

\* --------------------------------------------------------- run comparison
\* A session on repository "A" whose runs (1 and 2) and jobs have loaded.
CompareConfig == NewConfig(FALSE)

CompareRunsLoaded ==
    Update(NewModel(FALSE, FALSE), CompareConfig,
           ExecFetchWorkflowRuns(fetchWorkflowRuns(NewModel(FALSE, FALSE), CompareConfig),
                                 CompareConfig, SelectRemote, TRUE))

CompareJobsLoaded ==
    Update(CompareRunsLoaded.m, CompareConfig,
           ExecFetchJobs(CompareRunsLoaded.cmd, CompareConfig, SelectRemote, TRUE))

InitCompare ==
    /\ m = CompareJobsLoaded.m
    /\ config = CompareConfig
    /\ inflight = EmptyBag
    /\ remote = SelectRemote
    /\ notified = {}
    /\ last = Event("JobsLoadedMsg", "", 0)
    /\ call = NoCall

KeysCompare == {"c", "down", "up", "esc"}

SpecCompare == InitCompare /\ [][Step(KeysCompare)]_vars

\* The first job of the run picked at index idx of the run list.
FirstJobOf(runs, idx) == JobIdsOf(At(runs, idx).id)[1]

\* ---- C24: when the second run of a comparison is picked the session
\* issues the comparison fetch; that fetch leaves the two texts, each the
\* log of the first job of the picked run or the error string of its failed
\* fetch, never an error message; processing the texts stores their diff
\* and opens the compare view.
C24_ComparisonNeverFails ==
    /\ [](m.state = "CompareSelect" /\ m.compareSelectStep = 1
            /\ m.compareCursor # m.compareRunIdx1
            => /\ handleKey(m, config, "enter").cmd.kind = "fetchComparisonLogs"
               /\ handleKey(m, config, "enter").cmd.idx2 = m.compareCursor)
    /\ [][\A c \in Pending :
            (c.kind = "fetchComparisonLogs" /\ Executes(c)) =>
                \A msg \in BagToSet(inflight') :
                    Left(msg) =>
                        /\ msg.kind = "CompareLogsLoadedMsg"
                        /\ msg.logs1 \in {LogText(remote, FirstJobOf(c.runs, c.idx1)),
                                          ErrorLog(FirstJobOf(c.runs, c.idx1))}
                        /\ msg.logs2 \in {LogText(remote, FirstJobOf(c.runs, c.idx2)),
                                          ErrorLog(FirstJobOf(c.runs, c.idx2))}]_vars
    /\ [][\A msg \in Pending :
            (Delivers(msg) /\ msg.kind = "CompareLogsLoadedMsg")
                => /\ m'.state = "CompareView"
                   /\ m'.compareDiff = computeDiff(msg.logs1, msg.logs2)]_vars

\* --------------------------------------------------------------- the diff
\* Texts of at most MaxLines lines over three non-empty lines (1, 2, 3 for
\* a, b, c) and the empty line.
MaxLines == 3

DiffTexts == UNION {[1..n -> {EmptyLine, 1, 2, 3}] : n \in 0..MaxLines}

\* The second run of a comparison has been picked and the fetch has left
\* its message: any two texts.
DiffPicked ==
    handleKey(handleKey(handleKey(CompareJobsLoaded.m, CompareConfig, "c").m,
                        CompareConfig, "c").m, CompareConfig, "c")

InitDiff ==
    /\ m = DiffPicked.m
    /\ config = CompareConfig
    /\ \E logs1 \in DiffTexts, logs2 \in DiffTexts :
          inflight = SetToBag({[Msg("CompareLogsLoadedMsg", DiffPicked.cmd, CompareConfig)
                                   EXCEPT !.logs1 = logs1, !.logs2 = logs2]})
    /\ remote = SelectRemote
    /\ notified = {}
    /\ last = Event("key", "", 0)
    /\ call = NoCall

KeysDiff == {"esc"}

NextDiff ==
    \/ \E msg \in Pending : Deliver(msg)
    \/ \E k \in KeysDiff : Key(k)

SpecDiff == InitDiff /\ [][NextDiff]_vars

\* ---- C27: the diff stored for two texts has, for each index from 0 up
\* to the longer text's length (at most 10000) and in that order, one
\* context entry when both texts have the same line at the index, and
\* otherwise a removed entry iff the left text has a line at the index
\* followed by an added entry iff the right text has one; identical texts
\* give context entries only, and a,b,c against a,c gives context a,
\* removed b, added c, removed c.
C27_DiffPerIndex ==
    m.state = "CompareView" =>
        LET lines1 == Split(m.compareLogs1)
            lines2 == Split(m.compareLogs2)
            longest == IF Len(lines1) > Len(lines2) THEN Len(lines1) ELSE Len(lines2)
            n == IF longest > 10000 THEN 10000 ELSE longest
            Context(l) == [mark |-> "  ", line |-> l, color |-> 0]
            Removed(l) == [mark |-> "- ", line |-> l, color |-> -1]
            Added(l) == [mark |-> "+ ", line |-> l, color |-> 1]
            Entries(i) ==
                IF i < Len(lines1) /\ i < Len(lines2) /\ lines1[i + 1] = lines2[i + 1]
                THEN <<Context(lines1[i + 1])>>
                ELSE (IF i < Len(lines1) THEN <<Removed(lines1[i + 1])>> ELSE <<>>)
                     \o (IF i < Len(lines2) THEN <<Added(lines2[i + 1])>> ELSE <<>>)
            off[i \in 0..n] == IF i = 0 THEN 0 ELSE off[i - 1] + Len(Entries(i - 1))
        IN  /\ Len(m.compareDiff) = off[n]
            /\ \A i \in 0..(n - 1) :
                  SubSeq(m.compareDiff, off[i] + 1, off[i + 1]) = Entries(i)
            /\ lines1 = lines2 =>
                  \A k \in 1..Len(m.compareDiff) : m.compareDiff[k].color = 0
            /\ (lines1 = <<1, 2, 3>> /\ lines2 = <<1, 3>>) =>
                  m.compareDiff = <<Context(1), Removed(2), Added(3), Removed(3)>>

\* ------------------------------------------------------------ log filter
\* The log viewer is open on the second job (12, completed) of run 1 of
\* repository "A" and has been scrolled down one line; then the filter key
\* has issued the structured fetch.
FilterLogsOpened ==
    LET r1 == handleKey(CompareJobsLoaded.m, CompareConfig, "down")
        r2 == handleKey(r1.m, CompareConfig, "l")
        r3 == Update(r2.m, CompareConfig,
                     ExecFetchLogs(r2.cmd, CompareConfig, SelectRemote, TRUE))
    IN  handleKey(r3.m, CompareConfig, "down")

FilterRequested == handleKey(FilterLogsOpened.m, CompareConfig, "F")

\* The structured fetch has left its message: the parsed logs of any
\* archive.
InitFilter ==
    /\ m = FilterRequested.m
    /\ config = CompareConfig
    /\ \E a \in Archives : \E entries \in SortedEntries(a) :
          inflight = SetToBag({ExecFetchLogsStructured(FilterRequested.cmd, CompareConfig,
                                                       SelectRemote, TRUE, entries)})
    /\ remote = SelectRemote
    /\ notified = {}
    /\ last = Event("key", "", 0)
    /\ call = NoCall

KeysFilter == {" ", "down", "enter", "esc"}

NextFilter ==
    \/ \E msg \in Pending : Deliver(msg)
    \/ \E k \in KeysFilter : Key(k)

SpecFilter == InitFilter /\ [][NextFilter]_vars

\* The numbers of the steps of parsed logs.
StepNumbers(pl) == {pl.steps[i].number : i \in 1..Len(pl.steps)}

\* The steps whose number is in `numbers`, in the order of the steps.
MatchingSteps(pl, numbers) == SelectSeq(pl.steps, LAMBDA st : st.number \in numbers)

\* The blocks of a sequence of steps, one after the other.
Blocks(steps) ==
    LET off[i \in 0..Len(steps)] ==
            IF i = 0 THEN 0 ELSE off[i - 1] + Len(StepBlock(steps[i]))
        at(k) == CHOOSE i \in 1..Len(steps) : off[i - 1] < k /\ k <= off[i]
    IN  [k \in 1..off[Len(steps)] |-> StepBlock(steps[at(k)])[k - off[at(k) - 1]]]

\* ---- C28: for the parsed logs of any archive, the filtered content for
\* the empty filter is the combined text, for a filter holding every step
\* number it is the combined text again, and for a non-empty filter holding
\* only some of the step numbers it is the blocks (header, content, blank
\* line) of exactly the matching steps in ascending step order, with no
\* header of an excluded step in it.
C28_StepFiltering ==
    m.parsedLogs.present =>
        LET pl == m.parsedLogs
        IN  /\ FilteredContent(pl, <<>>) = pl.combined
            /\ \A f \in UNION {[1..n -> StepNumbers(pl)] : n \in 1..3} :
                  LET chosen == {f[i] : i \in 1..Len(f)}
                      out == FilteredContent(pl, f)
                      kept == MatchingSteps(pl, chosen)
                  IN  /\ chosen = StepNumbers(pl) => out = pl.combined
                      /\ chosen # StepNumbers(pl) =>
                            /\ out = Blocks(kept)
                            /\ \A i, k \in 1..Len(kept) :
                                  i < k => kept[i].number <= kept[k].number
                            /\ \A i \in 1..Len(pl.steps) :
                                  pl.steps[i].number \notin chosen =>
                                      \A k \in 1..Len(out) : out[k] # StepHeader(pl.steps[i])

\* A filter of one of two step numbers has been applied: the log viewer
\* shows the block of that step only.
C28_Witness ==
    /\ m.state = "LogViewer"
    /\ m.parsedLogs.present
    /\ Len(m.parsedLogs.steps) = 3
    /\ Cardinality(StepNumbers(m.parsedLogs)) = 3
    /\ Len(m.logFilterStepNumbers) = 2
    /\ m.logContent = FilteredContent(m.parsedLogs, m.logFilterStepNumbers)
    /\ m.logContent # m.parsedLogs.combined

\* The model after the toggle key, and after the apply key.
AfterStepToggle(mm) == handleKey(mm, config, " ").m

AfterApply(mm) == handleKey(mm, config, "enter").m

\* ---- C29: the log filter never holds a step number twice; in the filter
\* screen the toggle key removes the number of the step under the cursor
\* when the filter holds it and appends it when it does not; the apply key
\* (Enter, or the filter key again) shows the combined text for an empty
\* filter and otherwise the blocks of exactly the steps whose number the
\* filter holds, sets the scroll offset to 0 and opens the log viewer.
C29_FilterToggleAndApply ==
    /\ NoDuplicates(m.logFilterStepNumbers)
    /\ (m.state = "LogFilter" /\ Len(m.parsedLogs.steps) > 0) =>
          LET numbers == m.logFilterStepNumbers
              n       == At(m.parsedLogs.steps, m.logFilterIndex).number
              after   == AfterStepToggle(m).logFilterStepNumbers
          IN  /\ n \in Range(numbers) =>
                    (Range(after) = Range(numbers) \ {n} /\ Len(after) = Len(numbers) - 1)
              /\ n \notin Range(numbers) => after = Append(numbers, n)
    /\ m.state = "LogFilter" =>
          /\ AfterApply(m).state = "LogViewer"
          /\ AfterApply(m).logScrollOffset = 0
          /\ AfterApply(m).logContent =
                IF Len(m.logFilterStepNumbers) = 0 THEN m.parsedLogs.combined
                ELSE Blocks(MatchingSteps(m.parsedLogs, Range(m.logFilterStepNumbers)))
          /\ handleKey(m, config, "F").m = AfterApply(m)

\* The filter screen, entered from a scrolled log viewer, holds two step
\* numbers and the cursor is on a step whose number it holds.
C29_Witness ==
    /\ m.state = "LogFilter"
    /\ last.ev = "key"
    /\ m.logScrollOffset > 0
    /\ Len(m.logFilterStepNumbers) = 2
    /\ At(m.parsedLogs.steps, m.logFilterIndex).number \in Range(m.logFilterStepNumbers)
    /\ Len(m.parsedLogs.steps) = 3

\* --------------------------------------------------------------- loading
\* A session in either mode, with or without --watch.
InitLoading == \E multi \in BOOLEAN, watch \in BOOLEAN : InitWith(multi, watch)

KeysLoading == {"r", "enter"}

\* Every command completes and every message is processed: a command runs
\* in its own goroutine and the event loop takes the messages as they
\* come.  Nothing is assumed about the user or the remote.
Completion ==
    /\ WF_vars(\E c \in Pending : Execute(c))
    /\ WF_vars(\E msg \in Pending : Deliver(msg))

SpecLoading == InitLoading /\ [][Step(KeysLoading)]_vars /\ Completion

\* Processing msg now sets the state, or issues the job fetch.
Settles(msg) ==
    LET r == Update(m, config, msg)
    IN  r.m.state # "Loading" \/ r.cmd.kind = "fetchJobs"

\* The pending item is a command, executed or not, whose completion
\* message settles the state whatever the remote answers.
Resolves(item) ==
    IF item.phase = "msg" THEN item.kind # "TickMsg" /\ Settles(item)
    ELSE \A msg \in Outcomes(item, config, remote) : Settles(msg)

\* ---- C30: whenever the loading screen is shown some command is in
\* flight whose completion message sets the state or issues the job fetch
\* (whose completion sets it), and, every command completing, the loading
\* screen is always left eventually.
C30_LoadingIsLeft ==
    /\ [](m.state = "Loading" => \E item \in Pending : Resolves(item))
    /\ (m.state = "Loading" ~> m.state # "Loading")

\* The loading screen with the run list processed and only the job fetch
\* it issued in flight.
C30_Witness ==
    /\ m.state = "Loading"
    /\ last.ev = "RunsLoadedMsg"
    /\ Pending # {}
    /\ \A item \in Pending : item.kind = "fetchJobs" /\ item.phase = "cmd"

\* ------------------------------------------------------- retry exhaustion
\* ---- C40: RetryWithBackoff returns the error "failed after N retries"
\* only when the function was attempted maxRetries+1 times; a call that a
\* non-retryable error ended after one attempt does not return it.
C40_ExhaustionOnlyWhenExhausted ==
    (call.done /\ ~call.result.ok) => Len(call.hist) = call.maxRetries + 1

\* ------------------------------------------------- multi-source re-fetch
\* ---- C39: in multi-source mode a manual refresh and a watch poll tick
\* each issue the fetch from every configured source, and an aggregate
\* message processed replaces the aggregate list by what it carries.
C39_RefetchCoversAllSources ==
    [][m.multiRepoMode =>
          /\ Key("r") => handleKey(m, config, "r").cmd.kind = "fetchMultiRepoRuns"
          /\ \A msg \in Pending :
                /\ (Delivers(msg) /\ msg = Tick("poll") /\ m.watching
                        /\ ~(m.state = "LogViewer" /\ m.logStreaming))
                      => Issued(msg).kind = "fetchMultiRepoRuns"
                /\ (Delivers(msg) /\ msg.kind = "MultiRepoRunsLoadedMsg")
                      => m'.sourcedRuns = msg.sruns]_vars

\* ----------------------------------------------- polling and open screens
\* The screens the user opens from the main screen.
OpenedScreens ==
    {"LogViewer", "JobDetails", "Help", "BranchSelection", "StatusFilter",
     "MultiJobSelect", "CompareSelect", "LogFilter"}

\* ---- C33: while the screen is the log viewer, the job details, the help
\* or a selection screen, an Update step on a watch poll tick, on a
\* runs-loaded message or on a jobs-loaded message leaves the screen state
\* as it was.
C33_PollingKeepsScreen ==
    [][\A msg \in Pending :
          (Delivers(msg) /\ m.state \in OpenedScreens
              /\ (msg = Tick("poll") \/ msg.kind \in {"RunsLoadedMsg", "JobsLoadedMsg"}))
              => m'.state = m.state]_vars

\* ------------------------------------------- log filter: two completions
\* Archives whose files differ in their step number only (the filter
\* cursor does not depend on a file's name or content).
NumberedArchives ==
    {a \in Archives : \A i \in 1..Len(a) : a[i].name = 1 /\ a[i].content = <<7>>}

\* The logs key was pressed twice on job 12 before the first log arrived.
\* The first log opened the viewer and the filter key issued a structured
\* fetch; the second log opened the viewer again and the filter key issued
\* a second structured fetch.
FilterRequestedTwice ==
    LET r1 == handleKey(CompareJobsLoaded.m, CompareConfig, "down")
        r2 == handleKey(r1.m, CompareConfig, "l")
        r3 == handleKey(r2.m, CompareConfig, "l")
        r4 == Update(r3.m, CompareConfig,
                     ExecFetchLogs(r2.cmd, CompareConfig, SelectRemote, TRUE))
        r5 == handleKey(r4.m, CompareConfig, "F")
        r6 == Update(r5.m, CompareConfig,
                     ExecFetchLogs(r3.cmd, CompareConfig, SelectRemote, TRUE))
        r7 == handleKey(r6.m, CompareConfig, "F")
    IN  [m |-> r7.m, first |-> r5.cmd, second |-> r7.cmd]

\* Both structured fetches have left their message, each the parsed logs
\* of any archive.
InitFilterTwice ==
    /\ m = FilterRequestedTwice.m
    /\ config = CompareConfig
    /\ \E a1, a2 \in NumberedArchives :
          \E e1 \in SortedEntries(a1), e2 \in SortedEntries(a2) :
             inflight =
                 SetToBag({ExecFetchLogsStructured(FilterRequestedTwice.first, CompareConfig,
                                                   SelectRemote, TRUE, e1)})
                 (+) SetToBag({ExecFetchLogsStructured(FilterRequestedTwice.second,
                                                       CompareConfig, SelectRemote, TRUE, e2)})
    /\ remote = SelectRemote
    /\ notified = {}
    /\ last = Event("key", "", 0)
    /\ call = NoCall

SpecFilterTwice == InitFilterTwice /\ [][NextFilter]_vars

\* ---- C31: whenever the state is LogFilter and the loaded step list is
\* non-empty the log-filter cursor is a valid index into that list, in
\* whatever order the structured-log completions arrive, and the toggle of
\* the step under the cursor never indexes out of range.
C31_FilterCursorInRange ==
    /\ (m.state = "LogFilter" /\ Len(m.parsedLogs.steps) > 0)
          => (m.logFilterIndex >= 0 /\ m.logFilterIndex < Len(m.parsedLogs.steps))
    /\ m.state # "Panic"

\* ------------------------------------------------------ one polling cycle
\* ---- C32: at most one watch polling cycle exists at any time: over any
\* sequence of watch toggles, refreshes, run navigation and completions the
\* pending poll ticks (which the count of ticks and poll-initiated fetches
\* includes) number at most one.
C32_OnePollingCycle == Ticks(inflight, "poll") <= 1

\* ----------------------------------------------------- auxiliary view flags
\* A log request or a job-details request is in flight: its command, its
\* message, or an error message not yet processed.
ViewFetchPending ==
    \E it \in Pending :
        it.kind \in {"fetchLogs", "LogLoadedMsg", "updateLogs", "LogUpdatedMsg",
                     "fetchJobDetails", "JobDetailsLoadedMsg", "ErrMsg"}

\* ---- C34: whenever the state is Ready or Watching and no log fetch or
\* job-details fetch is in flight, the showing-logs and showing-job-details
\* flags are both false (so run navigation and job-cursor movement remain
\* available on the main screen).
C34_FlagsAgreeWithScreen ==
    (m.state \in {"Ready", "Watching"} /\ ~ViewFetchPending)
        => (~m.showingLogs /\ ~m.showingJobDetails)

\* ------------------------------------------------------------ status filter
\* A session on repository "A" in which the user has moved to the second
\* run (index 1) and its jobs have loaded.
SecondRunSelected ==
    LET r1 == handleKey(CompareJobsLoaded.m, CompareConfig, "right")
    IN  Update(r1.m, CompareConfig, ExecFetchJobs(r1.cmd, CompareConfig, SelectRemote, TRUE))

InitStatusFilter ==
    /\ m = SecondRunSelected.m
    /\ config = CompareConfig
    /\ inflight = EmptyBag
    /\ remote = SelectRemote
    /\ notified = {}
    /\ last = Event("JobsLoadedMsg", "", 0)
    /\ call = NoCall

\* The user opens, moves in and commits the status filter ("f" opens and
\* commits) and moves back to the first run.
KeysStatusFilter == {"f", "down", "left"}

SpecStatusFilter == InitStatusFilter /\ [][Step(KeysStatusFilter)]_vars

\* ---- C35: in single-source mode, whenever the run list is non-empty the
\* run-selection index is a valid index into the run list and the active
\* run is the run at that index, also after a status-filter commit has
\* reset the index to 0 and before or without the re-fetch completing.
C35_ActiveRunIsSelectedRun ==
    (~m.multiRepoMode /\ Len(m.runs) > 0)
        => /\ m.selectedRunIndex >= 0
           /\ m.selectedRunIndex < Len(m.runs)
           /\ m.run = At(m.runs, m.selectedRunIndex)

\* ------------------------------------------------------ multi-job view mode
\* The multi-job log viewer is open on the first two jobs of the run of
\* repository "G", both logs fetched.
MultiJobViewOpened ==
    LET r1 == handleKey(SelectJobsLoaded.m, SelectConfig, "m")
        r2 == handleKey(r1.m, SelectConfig, " ")
        r3 == handleKey(r2.m, SelectConfig, "down")
        r4 == handleKey(r3.m, SelectConfig, " ")
        r5 == handleKey(r4.m, SelectConfig, "enter")
    IN  Update(r5.m, SelectConfig,
               ExecFetchMultiJobLogs(r5.cmd, SelectConfig, SelectRemote,
                                     {r5.cmd.ids[i] : i \in 1..Len(r5.cmd.ids)}))

InitMultiView ==
    /\ m = MultiJobViewOpened.m
    /\ config = SelectConfig
    /\ inflight = EmptyBag
    /\ remote = SelectRemote
    /\ notified = {}
    /\ last = Event("MultiJobLogsLoadedMsg", "", 0)
    /\ call = NoCall

\* The user closes the viewer, opens the log of a job, and presses the
\* split/combined key.
KeysMultiView == {"l", "v", "down"}

SpecMultiView == InitMultiView /\ [][Step(KeysMultiView)]_vars

\* ---- C38: multi-job mode is on only while the log viewer shows multi-job
\* content: the key that closes the log viewer and the message that loads
\* the log of a single job leave the multi-job flag off, and the
\* split/combined key never replaces a content that is not the multi-job
\* content.
C38_MultiJobModeConfined ==
    [][/\ (m.state = "LogViewer" /\ Key("l")) => ~m'.multiJobMode
       /\ \A msg \in Pending :
             (Delivers(msg) /\ msg.kind = "LogLoadedMsg") => ~m'.multiJobMode
       /\ (Key("v") /\ m.state = "LogViewer" /\ m.logContent # buildMultiJobContent(m))
             => m'.logContent = m.logContent]_vars

\* ------------------------------------------------------- search input mode
\* The user opens and closes the log viewer, starts a search, types and
\* cancels.
KeysSearchInput == {"l", "/", "o", "esc"}

SpecSearchInput == Init /\ [][Step(KeysSearchInput)]_vars

\* ---- C36: search input mode is confined to the log viewer: in every
\* reachable state in which search input mode is on the state is
\* LogViewer (a completion message that changes the screen while the user
\* types a search also ends search input mode).
C36_SearchInputOnlyInLogViewer == m.searchInputMode => m.state = "LogViewer"

\* ---------------------------------------------------------- search matches
\* In the log viewer on job 12 the user has searched for "o" (one match,
\* the line "Ok") and pressed the filter key: the structured fetch has left
\* its message, the parsed logs of any archive.
SearchedThenFilter ==
    LET r1 == handleKey(FilterLogsOpened.m, CompareConfig, "/")
        r2 == handleKey(r1.m, CompareConfig, "o")
        r3 == handleKey(r2.m, CompareConfig, "enter")
    IN  handleKey(r3.m, CompareConfig, "F")

InitSearch ==
    /\ m = SearchedThenFilter.m
    /\ config = CompareConfig
    /\ \E a \in Archives : \E entries \in SortedEntries(a) :
          inflight = SetToBag({ExecFetchLogsStructured(SearchedThenFilter.cmd, CompareConfig,
                                                       SelectRemote, TRUE, entries)})
    /\ remote = SelectRemote
    /\ notified = {}
    /\ last = Event("key", "", 0)
    /\ call = NoCall

\* The user applies the filter, searches again and steps through the
\* matches.
KeysSearch == {"/", "o", "enter", "n"}

NextSearch ==
    \/ \E msg \in Pending : Deliver(msg)
    \/ \E k \in KeysSearch : Key(k)

SpecSearch == InitSearch /\ [][NextSearch]_vars

\* ---- C37: in every reachable state each stored match position is a line
\* index of the current log content whose line contains the current search
\* term, whatever the case, and the current match index is within the
\* match list; also after the content has changed.
C37_MatchesDescribeContent ==
    LET lines == Split(TrimSuffix(m.logContent))
        matches == m.logSearchMatches
    IN  /\ \A i \in 1..Len(matches) :
              /\ matches[i] >= 0 /\ matches[i] < Len(lines)
              /\ ContainsRunes(ToLowerRunes(LineRunes(lines[matches[i] + 1])),
                               ToLowerRunes(m.logSearchTerm))
        /\ Len(matches) > 0 =>
              (m.logSearchIndex >= 0 /\ m.logSearchIndex < Len(matches))

====
